---- MODULE Spec2Model ----
(***************************************************************************)
(* A model of the AI flow layer of studybuddy-ai and of the test           *)
(* submission sequence that calls it.                                      *)
(*                                                                         *)
(* Optional values of the TypeScript code (a field that may be undefined)  *)
(* are modelled as sequences of length at most one: Undefined is <<>> and  *)
(* Def(v) is <<v>>.                                                        *)
(***************************************************************************)
EXTENDS Integers, Sequences, FiniteSets, TLC

VARIABLES
    gtPc,          \* generateTest: "idle", "awaitingModel", "failed", "done"
    gtInput,       \* generateTest: the caller's input
    gtModelCalls,  \* generateTest: number of calls of prompt(input) issued
    gtModelOutput, \* generateTest: what prompt(input) returned
    gtStamps,      \* generateTest: the values of Date.now(), one per question
    gtResult,      \* generateTest: the value returned to the caller
    gtError,       \* generateTest: the message of the Error thrown, or ""
    ctTime,        \* convertTime: the clock time the argument is written from
    ctInput,       \* convertTime: the argument timeStr, a sequence of characters
    ctResult,      \* convertTime: the value returned, once it has been called
    spPc,          \* generateStudyPlan: "idle", "awaitingModel", "failed", "done"
    spInput,       \* generateStudyPlan: the caller's input
    spModelCalls,  \* generateStudyPlan: number of calls of prompt(promptInput)
    spModelOutput, \* generateStudyPlan: what prompt(promptInput) returned
    spResult,      \* generateStudyPlan: the value returned to the caller
    rpTest,        \* generateBasicReport: the argument submittedTest
    rpReport,      \* generateBasicReport: the report returned, once called
    smStore,       \* the test record of the document store (testSets/uid/testId)
    smUi,          \* per session of the test page: its React state
    smRun,         \* per session: the running handleSubmitTest, its locals
    anPc,          \* analyzeTestResults: "idle", "awaitingModel", "failed", "done"
    anInput,       \* analyzeTestResults: the caller's input
    anModelCalls,  \* analyzeTestResults: number of calls of thePrompt issued
    anPrompt,      \* analyzeTestResults: processedDataForPrompt, once built
    anResult,      \* analyzeTestResults: the report returned to the caller
    anError,       \* analyzeTestResults: the message of the Error thrown, or ""
    fcPc,          \* generateMultipleFlashcards: "idle", "awaitingModel", "failed", "done"
    fcInput,       \* generateMultipleFlashcards: the caller's input
    fcInvocations, \* generateMultipleFlashcards: number of invocations so far
    fcModelCalls,  \* generateMultipleFlashcards: calls of prompt(input) of this invocation
    fcModelInput,  \* generateMultipleFlashcards: the input prompt was called with
    fcResult,      \* generateMultipleFlashcards: the value returned to the caller
    sfPc,          \* per text flow: "idle", "awaitingModel", "failed", "done"
    sfModelCalls,  \* per text flow: number of calls of prompt(input) issued
    sfResult,      \* per text flow: the value returned to the caller
    cvPc,          \* createNewConversation: "idle", "summarizing", "storing", "failed", "done"
    cvMessage,     \* createNewConversation: the argument firstMessage
    cvTitle,       \* createNewConversation: the local variable title
    cvCaught,      \* createNewConversation: the catch of the summarization ran
    cvStore,       \* the conversation record of the document store, once set
    tmStore,       \* countdown: the stored test, its status and timeLimitMinutes
    tmTestSet,     \* countdown: the state testSet of the page
    tmTimeLeft,    \* countdown: the state timeLeft of the page, Undefined for null
    tmIsSubmitting,   \* countdown: the state isSubmitting of the page
    tmForcedSubmits,  \* countdown: calls of handleSubmitTest(true) made by the timer
    tmUserSubmitted,  \* countdown: the user has submitted the test
    cmPost,        \* community: the fields of the post node of the document store
    cmComments,    \* community: the comments stored under the post, by comment id
    cmPushed,      \* community: number of comment ids push() has given out
    cmPosted,      \* community: createCommunityPost has run
    cmProc,        \* community: per caller, the call under way and its position
    fsSet,         \* flashcards: the flashcardCount of the stored set, Undefined for none
    fsCards,       \* flashcards: the ids of the cards stored for the set
    fsPushed,      \* flashcards: number of card ids push() has given out
    fsCreated,     \* flashcards: createFlashcardSet has run
    fsCalls        \* flashcards: completed calls of add and delete

gtVars == <<gtPc, gtInput, gtModelCalls, gtModelOutput, gtStamps, gtResult, gtError>>
ctVars == <<ctTime, ctInput, ctResult>>
spVars == <<spPc, spInput, spModelCalls, spModelOutput, spResult>>

rpVars == <<rpTest, rpReport>>

smVars == <<smStore, smUi, smRun>>

anVars == <<anPc, anInput, anModelCalls, anPrompt, anResult, anError>>

\* The variables of the flows and handlers that follow the test submission.
fcVars == <<fcPc, fcInput, fcInvocations, fcModelCalls, fcModelInput, fcResult>>

sfVars == <<sfPc, sfModelCalls, sfResult>>

cvVars == <<cvPc, cvMessage, cvTitle, cvCaught, cvStore>>

tmVars == <<tmStore, tmTestSet, tmTimeLeft, tmIsSubmitting, tmForcedSubmits, tmUserSubmitted>>

cmVars == <<cmPost, cmComments, cmPushed, cmPosted, cmProc>>

fsVars == <<fsSet, fsCards, fsPushed, fsCreated, fsCalls>>

restVars == <<anVars, fcVars, sfVars, cvVars, tmVars, cmVars, fsVars>>

vars == <<gtVars, ctVars, spVars, rpVars, smVars, restVars>>

(***************************************************************************)
(* Optional values                                                         *)
(***************************************************************************)
Undefined == <<>>
Def(v) == <<v>>
IsDef(x) == x # <<>>
Val(x) == x[1]
Opt(S) == {Undefined} \cup {Def(v) : v \in S}

\* JavaScript truthiness of an optional string: defined and not "".
TruthyStr(x) == IsDef(x) /\ Val(x) # ""

\* All sequences over S of length 0..n.
SeqUpTo(S, n) == UNION {[1..k -> S] : k \in 0..n}

(***************************************************************************)
(* generateTest (src/ai/flows/generate-test-flow.ts)                       *)
(***************************************************************************)
MaxQuestions == 2      \* questions in one model response
MaxOptions == 2        \* options of one question in a model response
MaxTick == 1           \* Date.now() takes the values 0..MaxTick during one map

DefaultNumQuestions == 5
MaxTotalQuestions == 20

\* numSubjective / numObjective as the caller may pass them.
NumValues == Opt(-1..1 \cup (MaxTotalQuestions - 1)..(MaxTotalQuestions + 1))

GenerateTestInputs == [numSubjective : NumValues, numObjective : NumValues]

\* z.number().int().min(0).default(5): the parsed value, or Undefined when
\* the field fails its schema.
ParseCount(x) ==
    IF ~IsDef(x) THEN Def(DefaultNumQuestions)
    ELSE IF Val(x) >= 0 THEN x
    ELSE Undefined

\* GenerateTestInputSchema.parse: the parsed input (defaults applied), or
\* Undefined when the fields or the refinement reject it.
ParseGenerateTestInput(input) ==
    LET s == ParseCount(input.numSubjective)
        o == ParseCount(input.numObjective)
    IN  IF ~IsDef(s) \/ ~IsDef(o) THEN Undefined
        ELSE IF ~(Val(o) > 0 \/ Val(s) > 0) THEN Undefined
        ELSE Def([numSubjective |-> Val(s), numObjective |-> Val(o)])

ErrZeroQuestions == "Total number of questions must be greater than 0."
ErrTooManyQuestions == "Cannot generate more than 20 questions in total at once."
ErrEmptyOutput == "AI failed to generate questions or output was empty."
ErrSchema == "Schema validation failed."
ErrModel == "Model call failed."

\* GuardError without its second check.
GuardErrorNoUpperLimit(parsed) ==
    IF parsed.numObjective + parsed.numSubjective <= 0 THEN ErrZeroQuestions
    ELSE ""

\* The checks of the flow body before prompt(input): the message of the
\* Error thrown, or "" when the flow goes on to call the model.
GuardError(parsed) ==
    IF parsed.numObjective + parsed.numSubjective <= 0 THEN ErrZeroQuestions
    ELSE IF parsed.numObjective + parsed.numSubjective > MaxTotalQuestions
         THEN ErrTooManyQuestions
    ELSE ""

\* Values of the model's response.
QuestionIds == Opt({"", "q1"})
OptionIds == Opt({"", "a"})
OptionTexts == {"Paris"}
AnswerKeys == Opt({"a", "c"})
QuestionTypes == {"subjective", "objective"}

ModelOptions == [id : OptionIds, text : OptionTexts]

ModelQuestions ==
    [id : QuestionIds,
     type : QuestionTypes,
     questionText : {"Capital of France?"},
     options : Opt(SeqUpTo(ModelOptions, MaxOptions)),
     correctAnswerKey : AnswerKeys,
     correctAnswerText : Opt({"Paris"})]

\* Well-formed objective questions, as the prompt asks for them, with or
\* without an id.
PlainQuestions ==
    [id : {Undefined, Def("q1")},
     type : {"objective"},
     questionText : {"Capital of France?"},
     options : {Def(<<[id |-> Def("a"), text |-> "Paris"]>>)},
     correctAnswerKey : {Def("a")},
     correctAnswerText : {Def("Paris")}]

\* Questions of a response that differ in their texts.
ContentOptions == [id : {Undefined, Def("a")}, text : {"Paris", "Rome"}]

ContentQuestions ==
    [id : {Undefined, Def("q1")},
     type : QuestionTypes,
     questionText : {"Capital of Italy?", "Explain gravity."},
     options : Opt(SeqUpTo(ContentOptions, MaxOptions)),
     correctAnswerKey : Opt({"a"}),
     correctAnswerText : Opt({"Rome", "Mass attracts mass."})]

\* A question list of a response: n questions, the k-th of them q, which
\* is any question at all, the others the plain questions of rest.
QuestionList(n, k, q, rest) == [i \in 1..n |-> IF i = k THEN q ELSE rest[i]]

\* What `const {output} = await prompt(input)` binds output to when the
\* response holds no question.
EmptyOutputs ==
    {Undefined, Def([questions |-> Undefined]), Def([questions |-> Def(<<>>)])}

\* A response that holds the questions of list.
OutputOf(list) == Def([questions |-> Def(list)])

\* `q_${Date.now()}_${index}`
SyntheticQuestionId(now, index) == "q_" \o ToString(now) \o "_" \o ToString(index)

\* `${questionId}_opt${optIndex}`
SyntheticOptionId(questionId, optIndex) == questionId \o "_opt" \o ToString(optIndex)

\* QuestionId with ?? in place of ||: an empty id is kept.
QuestionIdNullish(q, index, now) ==
    IF IsDef(q.id) THEN Val(q.id) ELSE SyntheticQuestionId(now, index)

\* const questionId = q.id || `q_${Date.now()}_${index}`
QuestionId(q, index, now) ==
    IF TruthyStr(q.id) THEN Val(q.id) ELSE SyntheticQuestionId(now, index)

\* q.options?.map((opt, optIndex) => ({...opt, id: opt.id || ...}))
OptionsWithIds(q, questionId) ==
    IF ~IsDef(q.options) THEN Undefined
    ELSE LET opts == Val(q.options)
         IN  Def([k \in 1..Len(opts) |->
                    [id |-> IF TruthyStr(opts[k].id) THEN Val(opts[k].id)
                            ELSE SyntheticOptionId(questionId, k - 1),
                     text |-> opts[k].text]])

\* options: q.type === 'objective' ? (optionsWithIds || []) : undefined
ResultOptions(q, optionsWithIds) ==
    IF q.type = "objective"
    THEN (IF IsDef(optionsWithIds) THEN optionsWithIds ELSE Def(<<>>))
    ELSE Undefined

\* ResultAnswerKey without the test of the type.
ResultAnswerKeyKept(q) == q.correctAnswerKey

\* correctAnswerKey: q.type === 'objective' ? q.correctAnswerKey : undefined
ResultAnswerKey(q) ==
    IF q.type = "objective" THEN q.correctAnswerKey ELSE Undefined

\* ProcessQuestion with a missing correctAnswerText filled in with "".
ProcessQuestionAnswerFilled(q, index, now) ==
    LET questionId == QuestionId(q, index, now)
    IN  [id |-> questionId,
         type |-> q.type,
         questionText |-> q.questionText,
         options |-> ResultOptions(q, OptionsWithIds(q, questionId)),
         correctAnswerKey |-> ResultAnswerKey(q),
         correctAnswerText |-> IF IsDef(q.correctAnswerText) THEN q.correctAnswerText
                               ELSE Def("")]

\* The body of output.questions.map((q, index) => ...), index 0-based.
ProcessQuestion(q, index, now) ==
    LET questionId == QuestionId(q, index, now)
    IN  [id |-> questionId,
         type |-> q.type,
         questionText |-> q.questionText,
         options |-> ResultOptions(q, OptionsWithIds(q, questionId)),
         correctAnswerKey |-> ResultAnswerKey(q),
         correctAnswerText |-> q.correctAnswerText]

\* Date.now() is evaluated only for a question whose id is falsy; stampOf
\* gives the value it returned for the question at each (1-based) position.
ProcessQuestions(questions, stampOf) ==
    [i \in 1..Len(questions) |-> ProcessQuestion(questions[i], i - 1, stampOf[i])]

\* Date.now() never goes back during one map. A position whose question
\* has an id reads no clock: its entry is 0.
Stamps(questions) ==
    {s \in [1..Len(questions) -> 0..MaxTick] :
        /\ \A i \in 1..Len(questions) : TruthyStr(questions[i].id) => s[i] = 0
        /\ \A i \in 1..Len(questions), j \in 1..Len(questions) :
              (i <= j /\ ~TruthyStr(questions[i].id) /\ ~TruthyStr(questions[j].id))
                 => s[i] <= s[j]}

GtInit ==
    /\ gtPc = "idle"
    /\ gtInput = Undefined
    /\ gtModelCalls = 0
    /\ gtModelOutput = Undefined
    /\ gtStamps = <<>>
    /\ gtResult = Undefined
    /\ gtError = ""

\* generateTest(input) up to the await of prompt(input): the input schema of
\* the flow, then the two checks of the flow body.
GenerateTest(input) ==
    /\ gtPc = "idle"
    /\ gtInput' = Def(input)
    /\ LET parsed == ParseGenerateTestInput(input)
       IN  IF ~IsDef(parsed)
           THEN /\ gtPc' = "failed"
                /\ gtError' = ErrSchema
                /\ gtModelCalls' = gtModelCalls
           ELSE IF GuardError(Val(parsed)) # ""
           THEN /\ gtPc' = "failed"
                /\ gtError' = GuardError(Val(parsed))
                /\ gtModelCalls' = gtModelCalls
           ELSE /\ gtPc' = "awaitingModel"
                /\ gtError' = ""
                /\ gtModelCalls' = gtModelCalls + 1
    /\ UNCHANGED <<gtModelOutput, gtStamps, gtResult>>

\* prompt(input) resolves with `output`; the rest of the flow body runs.
PromptReturns(output) ==
    /\ gtPc = "awaitingModel"
    /\ gtModelOutput' = output
    /\ IF ~IsDef(output) \/ ~IsDef(Val(output).questions)
       THEN /\ gtPc' = "failed"
            /\ gtError' = ErrEmptyOutput
            /\ gtResult' = Undefined
            /\ gtStamps' = <<>>
       ELSE \E stamps \in Stamps(Val(Val(output).questions)) :
            /\ gtPc' = "done"
            /\ gtError' = ""
            /\ gtStamps' = stamps
            /\ gtResult' = Def([questions |->
                                ProcessQuestions(Val(Val(output).questions), stamps)])
    /\ UNCHANGED <<gtInput, gtModelCalls>>

\* prompt(input) rejects: the error propagates out of the flow.
PromptFails ==
    /\ gtPc = "awaitingModel"
    /\ gtPc' = "failed"
    /\ gtError' = ErrModel
    /\ UNCHANGED <<gtInput, gtModelCalls, gtModelOutput, gtStamps, gtResult>>

(***************************************************************************)
(* Strings that the code parses are sequences of one-character strings.    *)
(***************************************************************************)
Digits == <<"0", "1", "2", "3", "4", "5", "6", "7", "8", "9">>

IsDigit(c) == \E d \in 1..10 : Digits[d] = c
DigitValue(c) == (CHOOSE d \in 1..10 : Digits[d] = c) - 1

\* Number(s) for a string of decimal digits ("" gives 0, as in JavaScript).
RECURSIVE Number(_)
Number(s) ==
    IF s = <<>> THEN 0
    ELSE 10 * Number(SubSeq(s, 1, Len(s) - 1)) + DigitValue(s[Len(s)])

\* s.split(sep) for a one-character separator.
RECURSIVE Split(_, _)
Split(s, sep) ==
    IF \A i \in 1..Len(s) : s[i] # sep THEN <<s>>
    ELSE LET i == CHOOSE j \in 1..Len(s) :
                     s[j] = sep /\ \A l \in 1..(j - 1) : s[l] # sep
         IN  <<SubSeq(s, 1, i - 1)>> \o Split(SubSeq(s, i + 1, Len(s)), sep)

\* n written with at least two digits, as in "09".
TwoDigits(n) == <<Digits[(n \div 10) + 1], Digits[(n % 10) + 1]>>

(***************************************************************************)
(* generateStudyPlan (src/ai/flows/generate-study-plan-flow.ts)            *)
(***************************************************************************)
\* convertTime without the branch for 12 AM.
ConvertTimeNoMidnight(timeStr) ==
    LET parts == Split(timeStr, " ")
        time == parts[1]
        modifier == parts[2]
        hm == Split(time, ":")
        hours == Number(hm[1])
        minutes == Number(hm[2])
        hours1 == IF modifier = <<"P", "M">> /\ hours < 12 THEN hours + 12 ELSE hours
    IN  hours1 * 60 + minutes

\* const convertTime = (timeStr) => { ... }
convertTime(timeStr) ==
    LET parts == Split(timeStr, " ")
        time == parts[1]
        modifier == parts[2]
        hm == Split(time, ":")
        hours == Number(hm[1])
        minutes == Number(hm[2])
        hours1 == IF modifier = <<"P", "M">> /\ hours < 12 THEN hours + 12 ELSE hours
        hours2 == IF modifier = <<"A", "M">> /\ hours1 = 12 THEN 0 ELSE hours1
    IN  hours2 * 60 + minutes

\* The 12-hour clock times, and how the model writes one: "hh:mm AM",
\* the hour with or without a leading zero.
ClockHours == 1..12
ClockMinutes == 0..59
ClockTimes == [hh : ClockHours, mm : ClockMinutes, pm : BOOLEAN, padded : BOOLEAN]

WriteTime(t) ==
    (IF t.padded \/ t.hh >= 10 THEN TwoDigits(t.hh) ELSE <<Digits[t.hh + 1]>>)
    \o <<":">> \o TwoDigits(t.mm) \o <<" ">>
    \o (IF t.pm THEN <<"P", "M">> ELSE <<"A", "M">>)

CtInit ==
    /\ ctTime \in ClockTimes
    /\ ctInput = WriteTime(ctTime)
    /\ ctResult = Undefined

ConvertTime ==
    /\ ctResult = Undefined
    /\ ctResult' = Def(convertTime(ctInput))
    /\ UNCHANGED <<ctTime, ctInput>>

MaxDays == 2           \* days in one model response
MaxSessions == 2       \* sessions of one day in a model response

\* The request, as far as GenerateStudyPlanInputSchema constrains it.
MinStudyHours == 1
MaxStudyHours == 70
LearningPaces == {"relaxed", "moderate", "intensive"}

StudyPlanInputs ==
    [exams : SeqUpTo([subject : {"", "Math"}], 1),
     learningPace : LearningPaces \cup {"fast"},
     studyHoursPerWeek : Opt({MinStudyHours - 1, MinStudyHours,
                              MaxStudyHours, MaxStudyHours + 1})]

\* ValidStudyPlanInput without the minimum of one exam.
ValidStudyPlanInputAnyExams(input) ==
    /\ \A i \in 1..Len(input.exams) : Len(input.exams[i].subject) >= 1
    /\ input.learningPace \in LearningPaces
    /\ IsDef(input.studyHoursPerWeek) =>
          /\ Val(input.studyHoursPerWeek) >= MinStudyHours
          /\ Val(input.studyHoursPerWeek) <= MaxStudyHours

\* GenerateStudyPlanInputSchema accepts the input.
ValidStudyPlanInput(input) ==
    /\ Len(input.exams) >= 1
    /\ \A i \in 1..Len(input.exams) : Len(input.exams[i].subject) >= 1
    /\ input.learningPace \in LearningPaces
    /\ IsDef(input.studyHoursPerWeek) =>
          /\ Val(input.studyHoursPerWeek) >= MinStudyHours
          /\ Val(input.studyHoursPerWeek) <= MaxStudyHours

\* Calendar dates and how the model writes one: "YYYY-MM-DD".
PlanDates ==
    {[y |-> 2024, m |-> 12, d |-> 31],
     [y |-> 2025, m |-> 1, d |-> 31],
     [y |-> 2025, m |-> 2, d |-> 1]}

WriteDate(date) ==
    TwoDigits(date.y \div 100) \o TwoDigits(date.y % 100) \o <<"-">>
    \o TwoDigits(date.m) \o <<"-">> \o TwoDigits(date.d)

\* Days from 1970-01-01 to the civil date y-m-d (proleptic Gregorian).
DaysFromCivil(y, m, d) ==
    LET yy == IF m <= 2 THEN y - 1 ELSE y
        era == yy \div 400
        yoe == yy - era * 400
        mp == (m + 9) % 12
        doy == (153 * mp + 2) \div 5 + d - 1
        doe == yoe * 365 + yoe \div 4 - yoe \div 100 + doy
    IN  era * 146097 + doe - 719468

SecondsPerDay == 86400

\* new Date(dateStr).getTime() for a date-only ISO string, which is UTC
\* midnight of that day. getTime() counts milliseconds; the value here is in
\* seconds (a whole number for every such date), which the integers of the
\* model checker can hold.
DateGetTime(dateStr) ==
    LET parts == Split(dateStr, "-")
    IN  DaysFromCivil(Number(parts[1]), Number(parts[2]), Number(parts[3]))
           * SecondsPerDay

\* The start times of the model's sessions.
StartClockTimes ==
    {[hh |-> 12, mm |-> 15, pm |-> FALSE, padded |-> TRUE],
     [hh |-> 9, mm |-> 0, pm |-> FALSE, padded |-> TRUE],
     [hh |-> 12, mm |-> 30, pm |-> TRUE, padded |-> TRUE],
     [hh |-> 1, mm |-> 0, pm |-> TRUE, padded |-> FALSE]}

StartTimeStrings == {WriteTime(t) : t \in StartClockTimes}
DateStrings == {WriteDate(d) : d \in PlanDates}

ModelSessions == [startTime : StartTimeStrings, subject : {"Math", "Physics"}]

ModelDays ==
    [date : DateStrings, sessions : Opt(SeqUpTo(ModelSessions, MaxSessions))]

\* Days without sessions.
PlainDays == [date : DateStrings, sessions : {Def(<<>>)}]

\* A list of n days, the k-th of them day, the others the plain days of rest.
DayList(n, k, day, rest) == [i \in 1..n |-> IF i = k THEN day ELSE rest[i]]

\* What `const {output} = await prompt(promptInput)` binds output to when
\* the response holds no day.
EmptyPlanOutputs ==
    {Undefined, Def([dailySessions |-> Undefined]), Def([dailySessions |-> Def(<<>>)])}

PlanOutputOf(days) == Def([dailySessions |-> Def(days)])

\* SortedBy that puts, at every place, the first element of the key that
\* belongs there: elements of equal keys are merged into copies of one.
SortedByMergingKeys(seq, key) ==
    LET n == Len(seq)
        rank == [i \in 1..n |->
                    Cardinality({j \in 1..n :
                        \/ key[j] < key[i]
                        \/ (key[j] = key[i] /\ j < i)}) + 1]
        first == [i \in 1..n |-> CHOOSE j \in 1..n :
                    key[j] = key[i] /\ \A l \in 1..n : key[l] = key[i] => j <= l]
    IN  [r \in 1..n |-> seq[first[CHOOSE i \in 1..n : rank[i] = r]]]

\* Array.prototype.sort with the comparator (a, b) => key(a) - key(b), key[i]
\* the key of seq[i]: the
\* sort is stable, so the element at position i of seq goes after every
\* element of a smaller key and after the earlier elements of the same key.
SortedBy(seq, key) ==
    LET n == Len(seq)
        rank == [i \in 1..n |->
                    Cardinality({j \in 1..n :
                        \/ key[j] < key[i]
                        \/ (key[j] = key[i] /\ j < i)}) + 1]
    IN  [r \in 1..n |-> seq[CHOOSE i \in 1..n : rank[i] = r]]

\* convertTime and getTime on the strings of the model's responses, each
\* computed once.
StartTimeMinutes == [str \in StartTimeStrings |-> convertTime(str)]
DateTimes == [str \in DateStrings |-> DateGetTime(str)]

\* The sort keys: convertTime(s.startTime) and new Date(day.date).getTime().
StartMinutes(session) == StartTimeMinutes[session.startTime]
DayTime(day) == DateTimes[day.date]

\* day.sessions.sort(...) when day.sessions is there.
SortDay(day) ==
    IF IsDef(day.sessions)
    THEN [day EXCEPT !.sessions = Def(SortedBy(Val(day.sessions),
                    [i \in 1..Len(Val(day.sessions)) |-> StartMinutes(Val(day.sessions)[i])]))]
    ELSE day

\* The post-processing of the flow body: sort the days, then every day's
\* sessions; an output without dailySessions is returned as it is.
SortPlan(output) ==
    IF IsDef(output) /\ IsDef(Val(output).dailySessions)
    THEN LET days == SortedBy(Val(Val(output).dailySessions),
                    [i \in 1..Len(Val(Val(output).dailySessions)) |->
                        DayTime(Val(Val(output).dailySessions)[i])])
         IN  Def([dailySessions |-> Def([i \in 1..Len(days) |-> SortDay(days[i])])])
    ELSE output

\* GenerateStudyPlanOutputSchema accepts the value the flow body returned.
ValidStudyPlanOutput(output) ==
    /\ IsDef(output)
    /\ IsDef(Val(output).dailySessions)
    /\ \A i \in 1..Len(Val(Val(output).dailySessions)) :
          IsDef(Val(Val(output).dailySessions)[i].sessions)

SpInit ==
    /\ spPc = "idle"
    /\ spInput = Undefined
    /\ spModelCalls = 0
    /\ spModelOutput = Undefined
    /\ spResult = Undefined

\* generateStudyPlan(input) up to the await of prompt(promptInput): the
\* input schema of the flow, then the call.
GenerateStudyPlan(input) ==
    /\ spPc = "idle"
    /\ spInput' = Def(input)
    /\ IF ValidStudyPlanInput(input)
       THEN spPc' = "awaitingModel" /\ spModelCalls' = spModelCalls + 1
       ELSE spPc' = "failed" /\ spModelCalls' = spModelCalls
    /\ UNCHANGED <<spModelOutput, spResult>>

\* prompt(promptInput) resolves with `output`: the flow body sorts it and
\* returns it, and the flow checks the value against its output schema.
PlanPromptReturns(output) ==
    /\ spPc = "awaitingModel"
    /\ spModelOutput' = output
    /\ LET returned == SortPlan(output)
       IN  IF ValidStudyPlanOutput(returned)
           THEN spPc' = "done" /\ spResult' = returned
           ELSE spPc' = "failed" /\ spResult' = Undefined
    /\ UNCHANGED <<spInput, spModelCalls>>

\* prompt(promptInput) rejects: the error propagates out of the flow.
PlanPromptFails ==
    /\ spPc = "awaitingModel"
    /\ spPc' = "failed"
    /\ UNCHANGED <<spInput, spModelCalls, spModelOutput, spResult>>

(***************************************************************************)
(* generateBasicReport (src/app/tests/[testId]/page.tsx)                   *)
(***************************************************************************)
MaxReportQuestions == 2    \* questions of a submitted test

\* A number of the report that need not be whole, as a fraction in lowest
\* terms: (correct / total) * 100 is Fraction(correct * 100, total).
RECURSIVE Gcd(_, _)
Gcd(a, b) == IF b = 0 THEN a ELSE Gcd(b, a % b)
Fraction(n, d) == [num |-> n \div Gcd(n, d), den |-> d \div Gcd(n, d)]

\* The ids of the questions of a stored test, by position.
StoredQuestionId(i) == "q" \o ToString(i)

TwoOptions == <<[id |-> "a", text |-> "Paris"], [id |-> "b", text |-> "Rome"]>>

\* Questions as the document store holds them: an objective question with
\* options (or without: the store keeps no empty list) and any key, or a
\* subjective question, which generateTest leaves without options and key.
StoredQuestions(i) ==
    [id : {StoredQuestionId(i)},
     type : {"objective"},
     questionText : {"Capital of France?"},
     options : {Def(TwoOptions), Undefined},
     correctAnswerKey : Opt({"a", "c"}),
     correctAnswerText : {Def("Paris")}]
    \cup
    [id : {StoredQuestionId(i)},
     type : {"subjective"},
     questionText : {"Describe Paris."},
     options : {Undefined},
     correctAnswerKey : {Undefined},
     correctAnswerText : Opt({"A city."})]

\* What userResponses may hold for a question: an option id or free text.
StoredAnswers(q) ==
    IF q.type = "objective" THEN {"a", "b", "c"} ELSE {"", " ", "Paris is a city."}

\* A map that holds value for key and is m elsewhere.
Put(m, key, value) == (key :> value) @@ m

\* userResponses?.[id]
Lookup(responses, id) ==
    IF IsDef(responses) /\ id \in DOMAIN Val(responses)
    THEN Def(Val(responses)[id])
    ELSE Undefined

\* str.trim() for the strings of the model: a string of blanks gives "", and
\* the other strings neither start nor end with a blank.
Trim(str) == IF str \in {"", " ", "  "} THEN "" ELSE str

FeedbackUnavailable == "AI-powered feedback is temporarily unavailable for this question."
BasicOverallFeedback == "Basic report generated. AI analysis is temporarily unavailable. This report primarily reflects performance on objective questions."

\* q.options?.find(opt => opt.id === userAnswerValue): the option found.
SelectedOption(q, userAnswerValue) ==
    IF ~IsDef(q.options) \/ ~IsDef(userAnswerValue) THEN Undefined
    ELSE LET opts == Val(q.options)
             hits == {k \in 1..Len(opts) : opts[k].id = Val(userAnswerValue)}
         IN  IF hits = {} THEN Undefined
             ELSE Def(opts[CHOOSE k \in hits : \A l \in hits : k <= l])

\* IsCorrect with the response compared to the text of the correct answer.
IsCorrectByText(q, userAnswerValue) ==
    /\ q.type = "objective"
    /\ TruthyStr(userAnswerValue)
    /\ userAnswerValue = q.correctAnswerText

\* if (userAnswerValue && userAnswerValue === q.correctAnswerKey), which is
\* reached for an objective question only.
IsCorrect(q, userAnswerValue) ==
    /\ q.type = "objective"
    /\ TruthyStr(userAnswerValue)
    /\ userAnswerValue = q.correctAnswerKey

BasicUserAnswerText(q, userAnswerValue) ==
    IF q.type = "objective"
    THEN IF IsDef(SelectedOption(q, userAnswerValue))
         THEN Val(SelectedOption(q, userAnswerValue)).text
         ELSE IF TruthyStr(userAnswerValue) THEN "Invalid option selected"
         ELSE "Not Attempted"
    ELSE IF ~IsDef(userAnswerValue) \/ Trim(Val(userAnswerValue)) = ""
         THEN "Not Attempted"
         ELSE Val(userAnswerValue)

\* The body of submittedTest.questions.map(q => ...).
BasicQuestionAnalysis(submittedTest, q) ==
    LET userAnswerValue == Lookup(submittedTest.userResponses, q.id)
    IN  [questionId |-> q.id,
         questionText |-> q.questionText,
         userAnswerText |-> BasicUserAnswerText(q, userAnswerValue),
         correctAnswerText |->
             IF TruthyStr(q.correctAnswerText) THEN Val(q.correctAnswerText)
             ELSE IF q.type = "objective" THEN "Correct answer not specified"
             ELSE "Model answer not specified",
         isCorrect |-> IsCorrect(q, userAnswerValue),
         feedback |-> FeedbackUnavailable,
         suggestedScoreOutOfTen |-> Undefined]

\* TotalObjectiveQuestions that counts the questions of both types.
TotalQuestionsCounted(submittedTest) == Len(submittedTest.questions)

\* totalObjectiveQuestions after the map.
TotalObjectiveQuestions(submittedTest) ==
    Cardinality({i \in 1..Len(submittedTest.questions) :
                    submittedTest.questions[i].type = "objective"})

\* correctObjectiveAnswers after the map.
CorrectObjectiveAnswers(submittedTest) ==
    Cardinality({i \in 1..Len(submittedTest.questions) :
                    IsCorrect(submittedTest.questions[i],
                              Lookup(submittedTest.userResponses,
                                     submittedTest.questions[i].id))})

\* overallScore: a fraction, or Undefined for null.
\* BasicOverallScore as the ratio of correct answers, not multiplied by 100.
BasicOverallScoreAsRatio(submittedTest) ==
    IF TotalObjectiveQuestions(submittedTest) > 0
    THEN Def(Fraction(CorrectObjectiveAnswers(submittedTest),
                      TotalObjectiveQuestions(submittedTest)))
    ELSE Undefined

\* overallScore: (correctObjectiveAnswers / totalObjectiveQuestions) * 100 when
\* there is an objective question, else null. The quotient is kept exact.
BasicOverallScore(submittedTest) ==
    IF TotalObjectiveQuestions(submittedTest) > 0
    THEN Def(Fraction(CorrectObjectiveAnswers(submittedTest) * 100,
                      TotalObjectiveQuestions(submittedTest)))
    ELSE Undefined

generateBasicReport(submittedTest) ==
    [overallScore |-> BasicOverallScore(submittedTest),
     overallFeedback |-> BasicOverallFeedback,
     questionAnalyses |->
         [i \in 1..Len(submittedTest.questions) |->
             BasicQuestionAnalysis(submittedTest, submittedTest.questions[i])]]

\* A stored question with the response userResponses holds for it, or none.
QuestionCases ==
    UNION {{[question |-> q, answer |-> a] : a \in Opt(StoredAnswers(q))} :
              q \in StoredQuestions(1)}

\* The submitted test of n questions that has cases[i].question, under the id
\* of position i, as question i, and the responses of cases. The store keeps
\* no empty map: without a response there is no userResponses.
TestOf(n, cases) ==
    LET answered == {i \in 1..n : IsDef(cases[i].answer)}
    IN  [questions |->
            [i \in 1..n |-> [cases[i].question EXCEPT !.id = StoredQuestionId(i)]],
         userResponses |->
            IF answered = {} THEN Undefined
            ELSE Def([id \in {StoredQuestionId(i) : i \in answered} |->
                        Val(cases[CHOOSE i \in answered : StoredQuestionId(i) = id].answer)])]

\* Every submitted test of up to MaxReportQuestions questions.
RpInit ==
    /\ \E n \in 0..MaxReportQuestions :
          \E cases \in [1..n -> QuestionCases] : rpTest = TestOf(n, cases)
    /\ rpReport = Undefined

RpUnused ==
    /\ rpTest = [questions |-> <<>>, userResponses |-> Undefined]
    /\ rpReport = Undefined

\* generateBasicReport(submittedTest) is called.
BasicReport ==
    /\ rpReport = Undefined
    /\ rpReport' = Def(generateBasicReport(rpTest))
    /\ UNCHANGED rpTest

(***************************************************************************)
(* The test submission sequence: handleSubmitTest of the test page         *)
(* (src/app/tests/[testId]/page.tsx) over submitTestAndSaveAnswers and     *)
(* saveTestAnalysis of the database module and the analyzeTestResults flow.*)
(***************************************************************************)
\* Two browser sessions of the test's owner show the page of the same test.
Sessions == {"s1", "s2"}

\* s.includes(sub)
Includes(s, sub) ==
    \E i \in 1..(Len(s) - Len(sub) + 1) : SubSeq(s, i, i + Len(sub) - 1) = sub

UpperCase == <<"A", "B", "C", "D", "E", "F", "G", "H", "I", "J", "K", "L", "M",
               "N", "O", "P", "Q", "R", "S", "T", "U", "V", "W", "X", "Y", "Z">>
LowerCase == <<"a", "b", "c", "d", "e", "f", "g", "h", "i", "j", "k", "l", "m",
               "n", "o", "p", "q", "r", "s", "t", "u", "v", "w", "x", "y", "z">>

\* s.toLowerCase()
ToLowerCase(s) ==
    [i \in 1..Len(s) |->
        IF \E k \in 1..26 : UpperCase[k] = s[i]
        THEN LowerCase[CHOOSE k \in 1..26 : UpperCase[k] = s[i]]
        ELSE s[i]]

\* Messages of the errors analyzeTestResults rejects with.
MsgOverloaded ==
    <<"T", "h", "e", " ", "m", "o", "d", "e", "l", " ", "i", "s", " ", "o",
    "v", "e", "r", "l", "o", "a", "d", "e", "d", ".">>
Msg503 ==
    <<"[", "5", "0", "3", "]", " ", "m", "o", "d", "e", "l", " ", "e", "r",
    "r", "o", "r">>
MsgServiceUnavailable ==
    <<"S", "e", "r", "v", "i", "c", "e", " ", "U", "n", "a", "v", "a", "i",
    "l", "a", "b", "l", "e">>
MsgNoOutput ==
    <<"A", "I", " ", "a", "n", "a", "l", "y", "s", "i", "s", " ", "f", "a",
    "i", "l", "e", "d", " ", "t", "o", " ", "r", "e", "t", "u", "r", "n", " ",
    "a", "n", " ", "o", "u", "t", "p", "u", "t", ".">>
MsgEmpty == <<>>

AnalysisErrorMessages ==
    {MsgOverloaded, Msg503, MsgServiceUnavailable, MsgNoOutput, MsgEmpty}

DefaultAiErrorMessage ==
    <<"A", "I", " ", "a", "n", "a", "l", "y", "s", "i", "s", " ", "f", "a",
    "i", "l", "e", "d", ".">>
DefaultErrorMessage ==
    <<"C", "o", "u", "l", "d", " ", "n", "o", "t", " ", "p", "r", "o", "c",
    "e", "s", "s", " ", "y", "o", "u", "r", " ", "t", "e", "s", "t", ".", " ",
    "P", "l", "e", "a", "s", "e", " ", "t", "r", "y", " ", "a", "g", "a",
    "i", "n", ".">>

\* The texts handleSubmitTest looks for in the message of the error.
Code503 == <<"5", "0", "3">>
OverloadedText == <<"o", "v", "e", "r", "l", "o", "a", "d", "e", "d">>
ServiceUnavailableText ==
    <<"s", "e", "r", "v", "i", "c", "e", " ", "u", "n", "a", "v", "a", "i", "l", "a", "b",
      "l", "e">>

\* The test of handleSubmitTest passed by every message.
IsUnavailableAlways(aiErrorMessage) == TRUE

\* The test of handleSubmitTest with includes on the message as it is,
\* without toLowerCase.
IsUnavailableCaseSensitive(aiErrorMessage) ==
    \/ Includes(aiErrorMessage, Code503)
    \/ Includes(aiErrorMessage, OverloadedText)
    \/ Includes(aiErrorMessage, ServiceUnavailableText)

\* aiErrorMessage.includes("503") || ...toLowerCase().includes("overloaded")
\* || ...toLowerCase().includes("service unavailable")
IsUnavailableMessage(aiErrorMessage) ==
    \/ Includes(aiErrorMessage, Code503)
    \/ Includes(ToLowerCase(aiErrorMessage), OverloadedText)
    \/ Includes(ToLowerCase(aiErrorMessage), ServiceUnavailableText)

\* (aiError as Error).message || "AI analysis failed."
AiErrorMessage(message) == IF message = <<>> THEN DefaultAiErrorMessage ELSE message

\* IsUnavailableMessage on the messages of the model, each computed once.
UnavailableTable ==
    [m \in AnalysisErrorMessages |-> IsUnavailableMessage(AiErrorMessage(m))]

\* The tests the store holds when the page opens: status 'generated', no
\* responses, no analysis.
SubmitQuestionLists ==
    {<<[id |-> "q1", type |-> "objective", questionText |-> "Capital of France?",
        options |-> Def(TwoOptions), correctAnswerKey |-> Def("a"),
        correctAnswerText |-> Def("Paris")]>>,
     <<[id |-> "q1", type |-> "objective", questionText |-> "Capital of France?",
        options |-> Def(TwoOptions), correctAnswerKey |-> Def("a"),
        correctAnswerText |-> Def("Paris")],
       [id |-> "q2", type |-> "subjective", questionText |-> "Describe Paris.",
        options |-> Undefined, correctAnswerKey |-> Undefined,
        correctAnswerText |-> Def("A city.")]>>}

\* What the user can enter for a question of the page.
PageAnswers(q) ==
    IF q.type = "objective"
    THEN (IF IsDef(q.options)
          THEN {Val(q.options)[k].id : k \in 1..Len(Val(q.options))} ELSE {})
    ELSE {" ", "Paris is a city."}

\* Reports analyzeTestResults resolves with.
AiReports ==
    {[overallScore |-> Def([num |-> 80, den |-> 1]), overallFeedback |-> "Good work.",
      questionAnalyses |-> <<>>]}

EmptyAnswers == <<>>

IdleRun ==
    [pc |-> "idle", answers |-> EmptyAnswers, submittedTest |-> Undefined,
     aiError |-> Undefined, analysisResult |-> Undefined]

SmInit ==
    /\ \E questions \in SubmitQuestionLists :
          smStore = [status |-> "generated", questions |-> questions,
                     userResponses |-> Undefined, analysis |-> Undefined]
    /\ smUi = [s \in Sessions |->
                 [isLoading |-> TRUE, testSet |-> Undefined, userAnswers |-> EmptyAnswers,
                  isSubmitting |-> FALSE, isAnalyzing |-> FALSE,
                  submissionError |-> Undefined, showConfirmSubmitDialog |-> FALSE]]
    /\ smRun = [s \in Sessions |-> IdleRun]

SmUnused ==
    /\ smStore = [status |-> "generated", questions |-> <<>>,
                  userResponses |-> Undefined, analysis |-> Undefined]
    /\ smUi = <<>>
    /\ smRun = <<>>

\* What the page reads of the TestSet it holds, and what handleSubmitTest reads
\* of the TestSet submitTestAndSaveAnswers returns.
TestSetShown(testSet) == [status |-> testSet.status, questions |-> testSet.questions]
SubmittedTestRead(testSet) ==
    [questions |-> testSet.questions, userResponses |-> testSet.userResponses]

\* The callback of getTestSetDetails: the effect subscribes while isLoading
\* is true and unsubscribes when the callback has set it to false.
LoadTest(s) ==
    /\ smUi[s].isLoading
    /\ smUi' = [smUi EXCEPT ![s] =
                  [@ EXCEPT !.testSet = Def(TestSetShown(smStore)),
                            !.userAnswers = IF IsDef(smStore.userResponses)
                                            THEN Val(smStore.userResponses) ELSE @,
                            !.isLoading = FALSE]]
    /\ UNCHANGED <<smStore, smRun>>

\* The page renders the questions of the test with their inputs enabled.
ShowsTest(s) ==
    /\ ~smUi[s].isLoading
    /\ ~IsDef(smUi[s].submissionError)
    /\ IsDef(smUi[s].testSet)
    /\ ~smUi[s].isSubmitting
    /\ ~smUi[s].isAnalyzing
    /\ Val(smUi[s].testSet).status = "generated"

\* handleAnswerChange(questionId, answerValue) from the input of question i.
HandleAnswerChange(s, i, answerValue) ==
    /\ ShowsTest(s)
    /\ i \in 1..Len(Val(smUi[s].testSet).questions)
    /\ answerValue \in PageAnswers(Val(smUi[s].testSet).questions[i])
    /\ smUi' = [smUi EXCEPT ![s].userAnswers =
                  Put(@, Val(smUi[s].testSet).questions[i].id, answerValue)]
    /\ UNCHANGED <<smStore, smRun>>

\* testSet.questions.filter(q => !userAnswers[q.id]?.trim()).length
UnansweredQuestions(testSet, userAnswers) ==
    Cardinality({i \in 1..Len(testSet.questions) :
        LET a == Lookup(Def(userAnswers), testSet.questions[i].id)
        IN  ~IsDef(a) \/ Trim(Val(a)) = ""})

\* handleSubmitTest(forceSubmit) up to its first await: the Submit Test
\* button calls it with false, Submit Anyway of the open dialog with true.
HandleSubmitTest(s, forceSubmit) ==
    /\ ShowsTest(s)
    /\ smRun[s].pc = "idle"
    /\ forceSubmit => smUi[s].showConfirmSubmitDialog
    /\ IF ~forceSubmit /\ UnansweredQuestions(Val(smUi[s].testSet), smUi[s].userAnswers) > 0
       THEN /\ smUi' = [smUi EXCEPT ![s].showConfirmSubmitDialog = TRUE]
            /\ UNCHANGED smRun
       ELSE /\ smUi' = [smUi EXCEPT ![s] =
                          [@ EXCEPT !.showConfirmSubmitDialog = FALSE,
                                    !.submissionError = Undefined,
                                    !.isSubmitting = TRUE,
                                    !.isAnalyzing = FALSE]]
            /\ smRun' = [smRun EXCEPT ![s] =
                           [IdleRun EXCEPT !.pc = "update",
                                           !.answers = smUi[s].userAnswers]]
    /\ UNCHANGED smStore

\* submitTestAndSaveAnswers: update(testSetRef, {userResponses: answers,
\* status: 'submitted', ...}) takes effect. The store keeps no empty map.
SubmitUpdate(s) ==
    /\ smRun[s].pc = "update"
    /\ smStore' = [smStore EXCEPT
                     !.userResponses = IF DOMAIN smRun[s].answers = {}
                                       THEN Undefined ELSE Def(smRun[s].answers),
                     !.status = "submitted"]
    /\ smRun' = [smRun EXCEPT ![s].pc = "get"]
    /\ UNCHANGED smUi

\* submitTestAndSaveAnswers: get(testSetRef) resolves; handleSubmitTest goes
\* on to call analyzeTestResults.
SubmitGet(s) ==
    /\ smRun[s].pc = "get"
    /\ smRun' = [smRun EXCEPT ![s] = [@ EXCEPT !.submittedTest = Def(SubmittedTestRead(smStore)),
                                               !.pc = "analyze"]]
    /\ smUi' = [smUi EXCEPT ![s] = [@ EXCEPT !.isSubmitting = FALSE,
                                             !.isAnalyzing = TRUE]]
    /\ UNCHANGED smStore

\* analyzeTestResults resolves with a report; saveTestAnalysis is called.
AnalysisReturns(s, report) ==
    /\ smRun[s].pc = "analyze"
    /\ smRun' = [smRun EXCEPT ![s] = [@ EXCEPT !.analysisResult = Def(report),
                                               !.pc = "save"]]
    /\ UNCHANGED <<smStore, smUi>>

\* analyzeTestResults rejects with an Error of this message: the inner catch
\* builds the basic report or rethrows to the outer catch.
AnalysisFails(s, message) ==
    /\ smRun[s].pc = "analyze"
    /\ IF UnavailableTable[message]
       THEN /\ smRun' = [smRun EXCEPT ![s] =
                           [@ EXCEPT !.aiError = Def(message),
                                     !.analysisResult =
                                         Def(generateBasicReport(Val(smRun[s].submittedTest))),
                                     !.pc = "save"]]
            /\ UNCHANGED smUi
       ELSE /\ smRun' = [smRun EXCEPT ![s] = [IdleRun EXCEPT !.aiError = Def(message)]]
            /\ smUi' = [smUi EXCEPT ![s] =
                          [@ EXCEPT !.submissionError =
                                        Def(IF message = <<>> THEN DefaultErrorMessage
                                            ELSE message),
                                    !.isSubmitting = FALSE,
                                    !.isAnalyzing = FALSE]]
    /\ UNCHANGED smStore

\* saveTestAnalysis: update(testSetRef, {analysis, status: 'analyzed', ...})
\* takes effect and handleSubmitTest ends.
SaveAnalysis(s) ==
    /\ smRun[s].pc = "save"
    /\ smStore' = [smStore EXCEPT !.analysis = smRun[s].analysisResult,
                                  !.status = "analyzed"]
    /\ smRun' = [smRun EXCEPT ![s] = IdleRun]
    /\ smUi' = [smUi EXCEPT ![s].isAnalyzing = FALSE]

(***************************************************************************)
(* analyzeTestResults (unnamed/part_002)                                   *)
(***************************************************************************)
MaxAnalyzeQuestions == 2    \* questions of the test handed to the analysis

\* What userResponses may hold for a question of the input: any string.
AnalyzeAnswers(q) ==
    IF q.type = "objective" THEN {"", "a", "b", "c"} ELSE {"", "Paris is a city."}

\* A question of the input with the response userResponses holds for it, or
\* none.
AnalyzeCases ==
    UNION {{[question |-> q, answer |-> a] : a \in Opt(AnalyzeAnswers(q))} :
              q \in StoredQuestions(1)}

\* The input of n questions that has cases[i].question, under the id of
\* position i, as question i, and the responses of cases in userResponses.
AnalyzeInputOf(n, cases) ==
    LET answered == {i \in 1..n : IsDef(cases[i].answer)}
    IN  [questions |->
            [i \in 1..n |-> [cases[i].question EXCEPT !.id = StoredQuestionId(i)]],
         userResponses |->
            [id \in {StoredQuestionId(i) : i \in answered} |->
                Val(cases[CHOOSE i \in answered : StoredQuestionId(i) = id].answer)]]

NoAnswerProvided == "No answer provided"
InvalidOptionSelected == "Invalid option selected by user"

\* UserAnswerTextForPrompt with "N/A", the initial value, left for a question
\* without a response.
UserAnswerTextInitialKept(q, rawUserAnswer) ==
    IF TruthyStr(rawUserAnswer)
    THEN IF q.type = "objective" /\ IsDef(q.options)
         THEN IF IsDef(SelectedOption(q, rawUserAnswer))
              THEN Val(SelectedOption(q, rawUserAnswer)).text
              ELSE InvalidOptionSelected
         ELSE Val(rawUserAnswer)
    ELSE "N/A"

\* userAnswerTextForPrompt of the map over input.questions, for rawUserAnswer
\* = input.userResponses[q.id].
UserAnswerTextForPrompt(q, rawUserAnswer) ==
    IF TruthyStr(rawUserAnswer)
    THEN IF q.type = "objective" /\ IsDef(q.options)
         THEN IF IsDef(SelectedOption(q, rawUserAnswer))
              THEN Val(SelectedOption(q, rawUserAnswer)).text
              ELSE InvalidOptionSelected
         ELSE Val(rawUserAnswer)
    ELSE NoAnswerProvided

\* The body of input.questions.map((q, index) => ...).
ProcessedQuestion(input, index) ==
    LET q == input.questions[index]
    IN  [question |-> q,
         userAnswerTextForPrompt |->
             UserAnswerTextForPrompt(q, Lookup(Def(input.userResponses), q.id)),
         questionDisplayNumber |-> index]

\* processedDataForPrompt.questions
ProcessedQuestions(input) ==
    [index \in 1..Len(input.questions) |-> ProcessedQuestion(input, index)]

ErrNoAnalysisOutput == "AI analysis failed to return an output."

\* What thePrompt resolves with: no output, or a report.
AnalysisOutputs == {Undefined} \cup {Def(report) : report \in AiReports}

\* overallScore: z.number().nullable() admits null and every number.
ReportScores ==
    {Undefined} \cup {Def([num |-> n, den |-> 1]) : n \in {-5, 0, 50, 100, 150}}

\* Reports of every score that pass AnalyzeTestResultsOutputSchema.
ScoredReports ==
    {[overallScore |-> score, overallFeedback |-> "Good work.", questionAnalyses |-> <<>>] :
        score \in ReportScores}

AnInit ==
    /\ anPc = "idle"
    /\ anInput = Undefined
    /\ anModelCalls = 0
    /\ anPrompt = Undefined
    /\ anResult = Undefined
    /\ anError = ""

\* analyzeTestResults(input) up to the await of thePrompt: the pre-processing
\* of the questions, then the call.
AnalyzeTestResults(input) ==
    /\ anPc = "idle"
    /\ anInput' = Def(input)
    /\ anPrompt' = Def([questions |-> ProcessedQuestions(input)])
    /\ anModelCalls' = anModelCalls + 1
    /\ anPc' = "awaitingModel"
    /\ UNCHANGED <<anResult, anError>>

\* thePrompt resolves with `output`: the flow throws when there is none and
\* returns it otherwise.
AnalysisPromptReturns(output) ==
    /\ anPc = "awaitingModel"
    /\ IF ~IsDef(output)
       THEN anPc' = "failed" /\ anError' = ErrNoAnalysisOutput /\ anResult' = Undefined
       ELSE anPc' = "done" /\ anError' = "" /\ anResult' = output
    /\ UNCHANGED <<anInput, anModelCalls, anPrompt>>

\* AnalysisPromptFails with one retry: the flow calls thePrompt again.
AnalysisPromptRetried ==
    /\ anPc = "awaitingModel"
    /\ anModelCalls < 2
    /\ anModelCalls' = anModelCalls + 1
    /\ UNCHANGED <<anPc, anInput, anPrompt, anResult, anError>>

\* thePrompt rejects: the error propagates out of the flow.
AnalysisPromptFails ==
    /\ anPc = "awaitingModel"
    /\ anPc' = "failed"
    /\ anError' = ErrModel
    /\ UNCHANGED <<anInput, anModelCalls, anPrompt, anResult>>

(***************************************************************************)
(* generateMultipleFlashcards (ai/flows/generate-multiple-flashcards-flow) *)
(***************************************************************************)
MaxCards == 6          \* flashcards in a response of the model
MaxInvocations == 2    \* invocations of generateMultipleFlashcards

DefaultNumberOfCards == 5
MinNumberOfCards == 5

Topics == {"Biology", "Algebra"}

\* numberOfCards as callers give it: absent, negative, zero, below 5, 5, above.
NumberOfCardsValues == Opt({-1, 0, 2, 4, 5, 7})

FlashcardInputs == [topic : Topics, numberOfCards : NumberOfCardsValues]

Max(a, b) == IF a >= b THEN a ELSE b

\* input.numberOfCards || 5
NumberOfCardsOrDefault(input) ==
    IF IsDef(input.numberOfCards) /\ Val(input.numberOfCards) # 0
    THEN Val(input.numberOfCards)
    ELSE DefaultNumberOfCards

\* effectiveNumCards without Math.max: input.numberOfCards || 5.
EffectiveNumCardsUnclamped(input) == NumberOfCardsOrDefault(input)

\* const effectiveNumCards = Math.max(input.numberOfCards || 5, 5)
EffectiveNumCards(input) == Max(NumberOfCardsOrDefault(input), MinNumberOfCards)

\* The flashcard of position i in a response of the model.
FlashcardPair(i) ==
    [questionText |-> "Question " \o ToString(i), answerText |-> "Answer " \o ToString(i)]

\* What prompt(input) resolves with: no output, an output without the list, or
\* a list of 0 to MaxCards flashcards.
FlashcardOutputs ==
    {Undefined, Def([flashcards |-> Undefined])}
    \cup {Def([flashcards |-> Def([i \in 1..n |-> FlashcardPair(i)])]) : n \in 0..MaxCards}

\* GenerateMultipleFlashcardsOutputSchema accepts the value the flow body
\* returned.
ValidFlashcardsOutput(output) ==
    /\ IsDef(output)
    /\ IsDef(Val(output).flashcards)

FcInit ==
    /\ fcPc = "idle"
    /\ fcInput = Undefined
    /\ fcInvocations = 0
    /\ fcModelCalls = 0
    /\ fcModelInput = Undefined
    /\ fcResult = Undefined

\* generateMultipleFlashcards(input) up to the await of prompt(input) in the
\* flow: the wrapper replaces numberOfCards, the flow's input schema accepts
\* the value, and the flow body calls the prompt with it.
GenerateMultipleFlashcards(input) ==
    /\ fcPc \in {"idle", "done", "failed"}
    /\ fcInvocations < MaxInvocations
    /\ fcInvocations' = fcInvocations + 1
    /\ fcInput' = Def(input)
    /\ fcModelInput' = Def([topic |-> input.topic, numberOfCards |-> EffectiveNumCards(input)])
    /\ fcModelCalls' = 1
    /\ fcResult' = Undefined
    /\ fcPc' = "awaitingModel"

\* prompt(input) resolves with `output`: the flow body returns it, and the
\* flow checks the value against its output schema.
FlashcardsPromptReturns(output) ==
    /\ fcPc = "awaitingModel"
    /\ IF ValidFlashcardsOutput(output)
       THEN fcPc' = "done" /\ fcResult' = output
       ELSE fcPc' = "failed" /\ fcResult' = Undefined
    /\ UNCHANGED <<fcInput, fcInvocations, fcModelCalls, fcModelInput>>

\* prompt(input) rejects: the error propagates out of the flow.
FlashcardsPromptFails ==
    /\ fcPc = "awaitingModel"
    /\ fcPc' = "failed"
    /\ UNCHANGED <<fcInput, fcInvocations, fcModelCalls, fcModelInput, fcResult>>

(***************************************************************************)
(* resolveQuestion, summarizeConversation and generateFlashcardAnswer      *)
(* (ai/flows/resolve-question, summarize-conversation,                     *)
(* generate-flashcard-answer-flow): three flows of the same body, which    *)
(* take strings and return an object of one string field.                  *)
(***************************************************************************)
TextFlows == {"resolveQuestion", "summarizeConversation", "generateFlashcardAnswer"}

\* The field of the output schema of each flow.
OutputField(flow) ==
    CASE flow = "resolveQuestion" -> "answer"
      [] flow = "summarizeConversation" -> "summary"
      [] flow = "generateFlashcardAnswer" -> "answerText"

\* What prompt(input) resolves with: no output, an object without the field,
\* or an object with a string in it.
TextOutputs(flow) ==
    {Undefined}
    \cup {Def([field |-> OutputField(flow), value |-> v]) : v \in Opt({"", "Some text."})}

\* The output schema of the flow accepts the value the flow body returned.
ValidTextOutput(output) ==
    /\ IsDef(output)
    /\ IsDef(Val(output).value)

SfInit ==
    /\ sfPc = [flow \in TextFlows |-> "idle"]
    /\ sfModelCalls = [flow \in TextFlows |-> 0]
    /\ sfResult = [flow \in TextFlows |-> Undefined]

\* The exported function of the flow is called with an input its schema
\* accepts: the flow body calls the prompt.
CallTextFlow(flow) ==
    /\ sfPc[flow] = "idle"
    /\ sfPc' = [sfPc EXCEPT ![flow] = "awaitingModel"]
    /\ sfModelCalls' = [sfModelCalls EXCEPT ![flow] = @ + 1]
    /\ UNCHANGED sfResult

\* prompt(input) resolves with `output`: the flow body returns it, and the
\* flow checks the value against its output schema.
TextPromptReturns(flow, output) ==
    /\ sfPc[flow] = "awaitingModel"
    /\ IF ValidTextOutput(output)
       THEN sfPc' = [sfPc EXCEPT ![flow] = "done"] /\ sfResult' = [sfResult EXCEPT ![flow] = output]
       ELSE sfPc' = [sfPc EXCEPT ![flow] = "failed"] /\ UNCHANGED sfResult
    /\ UNCHANGED sfModelCalls

\* prompt(input) rejects: the error propagates out of the flow.
TextPromptFails(flow) ==
    /\ sfPc[flow] = "awaitingModel"
    /\ sfPc' = [sfPc EXCEPT ![flow] = "failed"]
    /\ UNCHANGED <<sfModelCalls, sfResult>>

(***************************************************************************)
(* createNewConversation (unnamed/part_000)                                *)
(***************************************************************************)
TitleLength == 50

\* The content of a message of n characters: the digits 1, 2, ..., 9, 0 in
\* turn.
ContentOf(n) == [i \in 1..n |-> Digits[(i % 10) + 1]]

\* The lengths of the first message: empty, short, and around TitleLength.
ContentLengths ==
    {0, 1, TitleLength - 1, TitleLength, TitleLength + 1, TitleLength + 2, TitleLength + 30}

FirstMessages == [role : {"user", "model"}, content : {ContentOf(n) : n \in ContentLengths}]

\* The users the function is called for: none, or a signed-in user.
ConversationUsers == Opt({"u1"})

\* The summaries summarizeConversation resolves with.
Summaries == {<<"S", "u", "m", "m", "a", "r", "y">>, <<"T", "a", "l", "k">>}

\* str.substring(start, end) for 0 <= start <= end.
Substring(str, start, end) ==
    SubSeq(str, start + 1, IF end <= Len(str) THEN end ELSE Len(str))

Ellipsis == <<".", ".", ".">>

\* DefaultTitle with the dots added from TitleLength characters on.
DefaultTitleDotsFromLimit(content) ==
    Substring(content, 0, TitleLength) \o (IF Len(content) >= TitleLength THEN Ellipsis ELSE <<>>)

\* firstMessage.content.substring(0, 50) + (firstMessage.content.length > 50 ? "..." : "")
DefaultTitle(content) ==
    Substring(content, 0, TitleLength) \o (IF Len(content) > TitleLength THEN Ellipsis ELSE <<>>)

CvInit ==
    /\ cvPc = "idle"
    /\ cvMessage = Undefined
    /\ cvTitle = <<>>
    /\ cvCaught = FALSE
    /\ cvStore = Undefined

\* createNewConversation(user, firstMessage) up to the await of
\* summarizeConversationAI.
CreateNewConversation(user, firstMessage) ==
    /\ cvPc = "idle"
    /\ cvMessage' = Def(firstMessage)
    /\ IF ~IsDef(user)
       THEN cvPc' = "failed" /\ cvTitle' = cvTitle
       ELSE cvPc' = "summarizing" /\ cvTitle' = DefaultTitle(firstMessage.content)
    /\ UNCHANGED <<cvCaught, cvStore>>

\* summarizeConversationAI resolves: title = summaryResult.summary, and the
\* function goes on to set(newConversationRef, conversationData).
SummaryReturns(summary) ==
    /\ cvPc = "summarizing"
    /\ cvTitle' = summary
    /\ cvPc' = "storing"
    /\ UNCHANGED <<cvMessage, cvCaught, cvStore>>

\* summarizeConversationAI rejects: the catch logs a warning, and the function
\* goes on to set(newConversationRef, conversationData).
SummaryFails ==
    /\ cvPc = "summarizing"
    /\ cvCaught' = TRUE
    /\ cvPc' = "storing"
    /\ UNCHANGED <<cvMessage, cvTitle, cvStore>>

\* set(newConversationRef, conversationData) takes effect and the function
\* returns the id.
StoreConversation ==
    /\ cvPc = "storing"
    /\ cvStore' = Def([title |-> cvTitle, messages |-> <<Val(cvMessage)>>])
    /\ cvPc' = "done"
    /\ UNCHANGED <<cvMessage, cvTitle, cvCaught>>

(***************************************************************************)
(* The countdown of the test page (src/app/tests/[testId]/page.tsx)        *)
(***************************************************************************)
MaxTimeLimitMinutes == 2    \* time limit of the stored test

SecondsPerMinute == 60

TestStatuses == {"generated", "submitted", "analyzed"}

\* The stored test: timeLimitMinutes is optional, and 0 is falsy.
TimedTests == [status : TestStatuses, timeLimitMinutes : Opt(0..MaxTimeLimitMinutes)]

TmInit ==
    /\ tmStore \in TimedTests
    /\ tmTestSet = Undefined
    /\ tmTimeLeft = Undefined
    /\ tmIsSubmitting = FALSE
    /\ tmForcedSubmits = 0
    /\ tmUserSubmitted = FALSE

TmUnused ==
    /\ tmStore = [status |-> "generated", timeLimitMinutes |-> Undefined]
    /\ tmTestSet = Undefined
    /\ tmTimeLeft = Undefined
    /\ tmIsSubmitting = FALSE
    /\ tmForcedSubmits = 0
    /\ tmUserSubmitted = FALSE

\* The callback of getTestSetDetails: timeLeft is initialised from the time
\* limit of a "generated" test, and cleared for a test of another status.
TimerLoadTest ==
    /\ ~IsDef(tmTestSet)
    /\ tmTestSet' = Def(tmStore)
    /\ tmTimeLeft' =
          IF /\ tmStore.status = "generated"
             /\ IsDef(tmStore.timeLimitMinutes)
             /\ Val(tmStore.timeLimitMinutes) # 0
             /\ ~IsDef(tmTimeLeft)
          THEN Def(Val(tmStore.timeLimitMinutes) * SecondsPerMinute)
          ELSE IF tmStore.status # "generated" THEN Undefined
          ELSE tmTimeLeft
    /\ UNCHANGED <<tmStore, tmIsSubmitting, tmForcedSubmits, tmUserSubmitted>>

\* The countdown effect has an interval running: it returns early, and sets
\* none, unless the test is "generated", timeLeft is above 0 and no
\* submission is under way (isAnalyzing is false until one has started).
IntervalRunning ==
    /\ IsDef(tmTestSet)
    /\ Val(tmTestSet).status = "generated"
    /\ IsDef(tmTimeLeft)
    /\ Val(tmTimeLeft) > 0
    /\ ~tmIsSubmitting

\* The value the updater passed to setTimeLeft returns for prevTime.
TimeLeftUpdater(prevTime) ==
    IF IsDef(prevTime) /\ Val(prevTime) > 0 THEN Def(Val(prevTime) - 1) ELSE Def(0)

\* The updater goes on to call handleSubmitTest(true).
UpdaterSubmits(prevTime) ==
    /\ ~(IsDef(prevTime) /\ Val(prevTime) > 0)
    /\ IsDef(prevTime)
    /\ Val(prevTime) <= 1
    /\ IsDef(tmTestSet)
    /\ Val(tmTestSet).status = "generated"
    /\ ~tmIsSubmitting

\* One tick of the interval: setTimeLeft(updater). timeLeft is a dependency
\* of the effect, so the interval is cleared and the effect runs again with
\* the new value.
TimerTick ==
    /\ IntervalRunning
    /\ tmTimeLeft' = TimeLeftUpdater(tmTimeLeft)
    /\ IF UpdaterSubmits(tmTimeLeft)
       THEN tmIsSubmitting' = TRUE /\ tmForcedSubmits' = tmForcedSubmits + 1
       ELSE UNCHANGED <<tmIsSubmitting, tmForcedSubmits>>
    /\ UNCHANGED <<tmStore, tmTestSet, tmUserSubmitted>>

\* The user submits the test: handleSubmitTest passes its guard and sets
\* isSubmitting.
TimerUserSubmits ==
    /\ IsDef(tmTestSet)
    /\ Val(tmTestSet).status = "generated"
    /\ ~tmIsSubmitting
    /\ tmIsSubmitting' = TRUE
    /\ tmUserSubmitted' = TRUE
    /\ UNCHANGED <<tmStore, tmTestSet, tmTimeLeft, tmForcedSubmits>>

(***************************************************************************)
(* The community posts of the database module (unnamed/part_000)           *)
(***************************************************************************)
MaxComments == 2    \* comment ids push() gives out for the post

Users == {"u1", "u2"}
Callers == {"p1", "p2"}
PostTexts == {"Why?", "Why not?"}
CommentTexts == {"Because.", "Because!"}
CommentIds == 1..MaxComments

ErrPostNotFound == "Post not found."
ErrCommentNotFound == "Comment not found."
ErrNotAuthorized(op) ==
    CASE op = "deleteCommunityPost" -> "You are not authorized to delete this post."
      [] op = "updateCommunityPost" -> "You are not authorized to edit this post."
      [] op = "deleteCommunityComment" -> "You are not authorized to delete this comment."
      [] op = "updateCommunityCommentText" -> "You are not authorized to edit this comment."

GuardedOps ==
    {"deleteCommunityPost", "updateCommunityPost",
     "deleteCommunityComment", "updateCommunityCommentText"}

\* The post node without a child: the store keeps no empty object, so
\* likedBy is the set of its keys, empty when the child is absent.
NoPost ==
    [userId |-> Undefined, questionText |-> Undefined, likes |-> Undefined,
     likedBy |-> {}, commentCount |-> Undefined]

NoComments == <<>>

\* snapshot.exists() of the post node: it has some child.
PostExists(post, comments) ==
    \/ IsDef(post.userId)
    \/ IsDef(post.questionText)
    \/ IsDef(post.likes)
    \/ post.likedBy # {}
    \/ IsDef(post.commentCount)
    \/ DOMAIN comments # {}

\* increment(delta) of the store on a number, or on an absent child.
Increment(v, delta) == Def((IF IsDef(v) THEN Val(v) ELSE 0) + delta)

\* The comments without the one of this id.
WithoutComment(comments, commentId) ==
    [id \in DOMAIN comments \ {commentId} |-> comments[id]]

IdleCall ==
    [pc |-> "idle", op |-> "none", user |-> "u1", comment |-> 0, text |-> "",
     owner |-> Undefined, snap |-> Undefined, error |-> ""]

CmInit ==
    /\ cmPost = NoPost
    /\ cmComments = NoComments
    /\ cmPushed = 0
    /\ cmPosted = FALSE
    /\ cmProc = [p \in Callers |-> IdleCall]

CmUnused ==
    /\ cmPost = NoPost
    /\ cmComments = NoComments
    /\ cmPushed = 0
    /\ cmPosted = FALSE
    /\ cmProc = <<>>

\* createCommunityPost(userId, username, questionText): set(newPostRef,
\* postData) with likes 0, likedBy {}, comments {} and commentCount 0.
CreateCommunityPost(userId, questionText) ==
    /\ ~cmPosted
    /\ cmPosted' = TRUE
    /\ cmPost' = [userId |-> Def(userId), questionText |-> Def(questionText),
                  likes |-> Def(0), likedBy |-> {}, commentCount |-> Def(0)]
    /\ UNCHANGED <<cmComments, cmPushed, cmProc>>

\* post.likes || 0
LikesOrZero(post) == IF IsDef(post.likes) THEN Val(post.likes) ELSE 0

\* LikedPost that counts every like and never takes one back.
LikedPostCountingEveryLike(post, userId) ==
    [post EXCEPT !.likes = Def(LikesOrZero(post) + 1), !.likedBy = @ \cup {userId}]

\* The update function of the transaction of likeCommunityPost, for a post
\* that is not null.
LikedPost(post, userId) ==
    IF userId \in post.likedBy
    THEN [post EXCEPT !.likes = Def(LikesOrZero(post) - 1), !.likedBy = @ \ {userId}]
    ELSE [post EXCEPT !.likes = Def(LikesOrZero(post) + 1), !.likedBy = @ \cup {userId}]

\* likeCommunityPost(postId, userId): runTransaction reads the post node.
LikeCommunityPost(p, userId) ==
    /\ cmPosted
    /\ cmProc[p].pc = "idle"
    /\ cmProc' = [cmProc EXCEPT ![p] =
                    [IdleCall EXCEPT !.pc = "transaction", !.op = "likeCommunityPost",
                                     !.user = userId,
                                     !.snap = Def([post |-> cmPost, comments |-> cmComments])]]
    /\ UNCHANGED <<cmPost, cmComments, cmPushed, cmPosted>>

\* The transaction writes the value of the update function if the node is
\* still what it read, and runs the update function again on the new value
\* otherwise. For a post that is null the update function returns null.
LikeTransactionCommits(p) ==
    /\ cmProc[p].pc = "transaction"
    /\ IF Val(cmProc[p].snap) = [post |-> cmPost, comments |-> cmComments]
       THEN /\ cmPost' = IF PostExists(cmPost, cmComments)
                         THEN LikedPost(cmPost, cmProc[p].user)
                         ELSE cmPost
            /\ cmProc' = [cmProc EXCEPT ![p] = [@ EXCEPT !.pc = "idle", !.snap = Undefined]]
       ELSE /\ cmPost' = cmPost
            /\ cmProc' = [cmProc EXCEPT ![p].snap =
                            Def([post |-> cmPost, comments |-> cmComments])]
    /\ UNCHANGED <<cmComments, cmPushed, cmPosted>>

\* addCommentToCommunityPost(postId, userId, username, text) up to its second
\* await: push() gives a new comment id and set(newCommentRef, commentData)
\* takes effect.
AddCommentToCommunityPost(p, userId, text) ==
    /\ cmPosted
    /\ cmProc[p].pc = "idle"
    /\ cmPushed < MaxComments
    /\ cmPushed' = cmPushed + 1
    /\ cmComments' = ((cmPushed + 1) :> [userId |-> Def(userId), text |-> Def(text)])
                        @@ cmComments
    /\ cmProc' = [cmProc EXCEPT ![p] =
                    [IdleCall EXCEPT !.pc = "count", !.op = "addCommentToCommunityPost",
                                     !.user = userId, !.comment = cmPushed + 1]]
    /\ UNCHANGED <<cmPost, cmPosted>>

\* update(postRef, {commentCount: increment(1)}) takes effect.
AddCommentCounts(p) ==
    /\ cmProc[p].pc = "count"
    /\ cmProc[p].op = "addCommentToCommunityPost"
    /\ cmPost' = [cmPost EXCEPT !.commentCount = Increment(@, 1)]
    /\ cmProc' = [cmProc EXCEPT ![p] = IdleCall]
    /\ UNCHANGED <<cmComments, cmPushed, cmPosted>>

\* OwnerCheckError without the comparison of the user ids.
OwnerCheckErrorExistsOnly(op, exists, owner, currentUserId, notFound) ==
    IF ~exists THEN notFound ELSE ""

\* The two checks after get(): the error thrown, "" for none.
OwnerCheckError(op, exists, owner, currentUserId, notFound) ==
    IF ~exists THEN notFound
    ELSE IF owner # Def(currentUserId) THEN ErrNotAuthorized(op)
    ELSE ""

\* A call of one of the four guarded functions up to its write: get() of
\* the post or comment, then the two checks. Of a call that throws only the
\* error remains.
GuardedCall(p, op, commentId, text, currentUserId, exists, owner, notFound) ==
    /\ cmPosted
    /\ cmProc[p].pc = "idle"
    /\ LET error == OwnerCheckError(op, exists, owner, currentUserId, notFound)
       IN  cmProc' = [cmProc EXCEPT ![p] =
                        IF error = ""
                        THEN [IdleCall EXCEPT !.pc = "write",
                                              !.op = op,
                                              !.user = currentUserId,
                                              !.comment = commentId,
                                              !.text = text,
                                              !.owner = owner]
                        ELSE [IdleCall EXCEPT !.error = error]]
    /\ UNCHANGED <<cmPost, cmComments, cmPushed, cmPosted>>

CommentExists(commentId) == commentId \in DOMAIN cmComments
CommentOwner(commentId) ==
    IF CommentExists(commentId) THEN cmComments[commentId].userId ELSE Undefined

\* deleteCommunityComment(postId, commentId, currentUserId)
DeleteCommunityComment(p, commentId, currentUserId) ==
    GuardedCall(p, "deleteCommunityComment", commentId, "", currentUserId,
                CommentExists(commentId), CommentOwner(commentId), ErrCommentNotFound)

\* remove(commentRef) takes effect.
DeleteCommentRemoves(p) ==
    /\ cmProc[p].pc = "write"
    /\ cmProc[p].op = "deleteCommunityComment"
    /\ cmComments' = WithoutComment(cmComments, cmProc[p].comment)
    /\ cmProc' = [cmProc EXCEPT ![p].pc = "count"]
    /\ UNCHANGED <<cmPost, cmPushed, cmPosted>>

\* update(postRef, {commentCount: increment(-1)}) takes effect.
DeleteCommentCounts(p) ==
    /\ cmProc[p].pc = "count"
    /\ cmProc[p].op = "deleteCommunityComment"
    /\ cmPost' = [cmPost EXCEPT !.commentCount = Increment(@, -1)]
    /\ cmProc' = [cmProc EXCEPT ![p] = IdleCall]
    /\ UNCHANGED <<cmComments, cmPushed, cmPosted>>

\* deleteCommunityPost(postId, currentUserId)
DeleteCommunityPost(p, currentUserId) ==
    GuardedCall(p, "deleteCommunityPost", 0, "", currentUserId,
                PostExists(cmPost, cmComments), cmPost.userId, ErrPostNotFound)

\* remove(postRef) takes effect: the post goes with its comments.
DeletePostRemoves(p) ==
    /\ cmProc[p].pc = "write"
    /\ cmProc[p].op = "deleteCommunityPost"
    /\ cmPost' = NoPost
    /\ cmComments' = NoComments
    /\ cmProc' = [cmProc EXCEPT ![p] = IdleCall]
    /\ UNCHANGED <<cmPushed, cmPosted>>

\* updateCommunityPost(postId, newText, newImageUrl, currentUserId)
UpdateCommunityPost(p, newText, currentUserId) ==
    GuardedCall(p, "updateCommunityPost", 0, newText, currentUserId,
                PostExists(cmPost, cmComments), cmPost.userId, ErrPostNotFound)

\* update(postRef, {questionText: newText, ...}) takes effect.
UpdatePostWrites(p) ==
    /\ cmProc[p].pc = "write"
    /\ cmProc[p].op = "updateCommunityPost"
    /\ cmPost' = [cmPost EXCEPT !.questionText = Def(cmProc[p].text)]
    /\ cmProc' = [cmProc EXCEPT ![p] = IdleCall]
    /\ UNCHANGED <<cmComments, cmPushed, cmPosted>>

\* updateCommunityCommentText(postId, commentId, newText, currentUserId)
UpdateCommunityCommentText(p, commentId, newText, currentUserId) ==
    GuardedCall(p, "updateCommunityCommentText", commentId, newText, currentUserId,
                CommentExists(commentId), CommentOwner(commentId), ErrCommentNotFound)

\* update(commentRef, {text: newText, ...}) takes effect; on a comment that
\* is gone it makes a comment of these children only.
UpdateCommentWrites(p) ==
    /\ cmProc[p].pc = "write"
    /\ cmProc[p].op = "updateCommunityCommentText"
    /\ cmComments' = (cmProc[p].comment :>
                        [userId |-> CommentOwner(cmProc[p].comment),
                         text |-> Def(cmProc[p].text)]) @@ cmComments
    /\ cmProc' = [cmProc EXCEPT ![p] = IdleCall]
    /\ UNCHANGED <<cmPost, cmPushed, cmPosted>>

(***************************************************************************)
(* The flashcard sets of the database module (unnamed/part_000)            *)
(***************************************************************************)
MaxFlashcards == 4        \* card ids push() gives out for the set
MaxFlashcardCalls == 8    \* completed calls of add and delete

FlashcardIds == 1..MaxFlashcards

FsInit ==
    /\ fsSet = Undefined
    /\ fsCards = {}
    /\ fsPushed = 0
    /\ fsCreated = FALSE
    /\ fsCalls = 0

FsUnused == FsInit

\* createFlashcardSet(userId, title): set(newSetRef, setData) with
\* flashcardCount 0.
CreateFlashcardSet ==
    /\ ~fsCreated
    /\ fsCreated' = TRUE
    /\ fsSet' = Def(0)
    /\ UNCHANGED <<fsCards, fsPushed, fsCalls>>

\* addFlashcardToSet(userId, setId, frontText, backText), completed: push()
\* gives a new card id, set(newCardRef, cardData), then
\* update(setRef, {flashcardCount: increment(1), ...}).
AddFlashcardToSet ==
    /\ fsCreated
    /\ fsCalls < MaxFlashcardCalls
    /\ fsPushed < MaxFlashcards
    /\ fsPushed' = fsPushed + 1
    /\ fsCards' = fsCards \cup {fsPushed + 1}
    /\ fsSet' = Increment(fsSet, 1)
    /\ fsCalls' = fsCalls + 1
    /\ UNCHANGED fsCreated

\* deleteFlashcardFromSet(userId, setId, cardId), completed: remove(cardRef),
\* then update(setRef, {flashcardCount: increment(-1), ...}).
DeleteFlashcardFromSet(cardId) ==
    /\ fsCreated
    /\ fsCalls < MaxFlashcardCalls
    /\ fsCards' = fsCards \ {cardId}
    /\ fsSet' = Increment(fsSet, -1)
    /\ fsCalls' = fsCalls + 1
    /\ UNCHANGED <<fsPushed, fsCreated>>

\* The flows and handlers that follow the test submission, not called.
RestUnused == AnInit /\ FcInit /\ SfInit /\ CvInit /\ TmUnused /\ CmUnused /\ FsUnused

(***************************************************************************)
(* Properties of generateTest                                              *)
(***************************************************************************)
\* The request's total, with the schema's default for an absent count.
RequestedCount(x) == IF IsDef(x) THEN Val(x) ELSE DefaultNumQuestions
RequestedTotal(input) ==
    RequestedCount(input.numSubjective) + RequestedCount(input.numObjective)

\* C1: a generateTest request whose numSubjective + numObjective is 0 or is
\* greater than 20 fails with an error and issues no call to the model; the
\* model is called only when the total is in 1..20.
C1_TotalOutOfRangeFailsBeforeModel ==
    IsDef(gtInput) =>
        LET total == RequestedTotal(Val(gtInput))
        IN  /\ (total = 0 \/ total > 20) =>
                (gtPc = "failed" /\ gtError # "" /\ gtModelCalls = 0)
            /\ gtModelCalls > 0 => total \in 1..20

C1_Witness ==
    /\ IsDef(gtInput)
    /\ RequestedTotal(Val(gtInput)) = 21
    /\ Val(gtInput).numSubjective = Def(1)
    /\ gtPc = "failed"
    /\ gtError = ErrTooManyQuestions
    /\ gtModelCalls = 0

ResultQuestions == Val(gtResult).questions
ModelQuestionsReturned == Val(Val(gtModelOutput).questions)

\* C2: in the result of a successful generateTest every objective question
\* has a defined list of options, and its correctAnswerKey, when present, is
\* the id of exactly one of those options.
C2_KeyNamesExactlyOneOption ==
    gtPc = "done" =>
        \A i \in 1..Len(ResultQuestions) :
            LET q == ResultQuestions[i]
            IN  q.type = "objective" =>
                    /\ IsDef(q.options)
                    /\ IsDef(q.correctAnswerKey) =>
                         Cardinality({k \in 1..Len(Val(q.options)) :
                                        Val(q.options)[k].id = Val(q.correctAnswerKey)}) = 1

\* C3: in the result of a successful generateTest a subjective question has
\* neither options nor correctAnswerKey, whatever the model returned for them.
C3_SubjectiveHasNoOptionsNoKey ==
    gtPc = "done" =>
        \A i \in 1..Len(ResultQuestions) :
            ResultQuestions[i].type = "subjective" =>
                /\ ResultQuestions[i].options = Undefined
                /\ ResultQuestions[i].correctAnswerKey = Undefined

C3_Witness ==
    /\ gtPc = "done"
    /\ \E i \in 1..Len(ResultQuestions) :
          /\ ModelQuestionsReturned[i].type = "subjective"
          /\ IsDef(ModelQuestionsReturned[i].options)
          /\ Len(Val(ModelQuestionsReturned[i].options)) > 0
          /\ IsDef(ModelQuestionsReturned[i].correctAnswerKey)
          /\ ResultQuestions[i].options = Undefined

\* C4: after post-processing every question and every option has a non-empty
\* id: a model-supplied non-empty id is kept, a missing or empty question id
\* becomes q_<timestamp>_<index>, and a missing or empty option id becomes
\* <final id of its question>_opt<index of the option>.
C4_IdsBackfilled ==
    gtPc = "done" =>
        \A i \in 1..Len(ResultQuestions) :
            LET q == ResultQuestions[i]
                m == ModelQuestionsReturned[i]
            IN  /\ q.id # ""
                /\ IF IsDef(m.id) /\ Val(m.id) # ""
                   THEN q.id = Val(m.id)
                   ELSE q.id = "q_" \o ToString(gtStamps[i]) \o "_" \o ToString(i - 1)
                /\ IsDef(q.options) =>
                     /\ IsDef(m.options)
                          => Len(Val(q.options)) = Len(Val(m.options))
                     /\ \A k \in 1..Len(Val(q.options)) :
                          LET o == Val(q.options)[k]
                              mo == Val(m.options)[k]
                          IN  /\ o.id # ""
                              /\ IF IsDef(mo.id) /\ Val(mo.id) # ""
                                 THEN o.id = Val(mo.id)
                                 ELSE o.id = q.id \o "_opt" \o ToString(k - 1)

C4_Witness ==
    /\ gtPc = "done"
    /\ Len(ResultQuestions) = 2
    /\ ModelQuestionsReturned[2].id = Def("")
    /\ ResultQuestions[2].id = "q_1_1"
    /\ IsDef(ResultQuestions[2].options)
    /\ Len(Val(ResultQuestions[2].options)) = 2
    /\ Val(ModelQuestionsReturned[2].options)[1].id = Def("a")
    /\ Val(ModelQuestionsReturned[2].options)[2].id = Undefined
    /\ Val(ResultQuestions[2].options)[1].id = "a"
    /\ Val(ResultQuestions[2].options)[2].id = "q_1_1_opt1"

\* C23: in the result of every successful generateTest the ids of the
\* questions are pairwise distinct, and so are the ids of the options of
\* each question.
C23_IdsPairwiseDistinct ==
    gtPc = "done" =>
        /\ \A i \in 1..Len(ResultQuestions), j \in 1..Len(ResultQuestions) :
              i # j => ResultQuestions[i].id # ResultQuestions[j].id
        /\ \A i \in 1..Len(ResultQuestions) :
              IsDef(ResultQuestions[i].options) =>
                 LET opts == Val(ResultQuestions[i].options)
                 IN  \A k \in 1..Len(opts), l \in 1..Len(opts) :
                        k # l => opts[k].id # opts[l].id

(***************************************************************************)
(* Properties of analyzeTestResults                                        *)
(***************************************************************************)
AnalyzeQuestions == Val(anInput).questions
PromptQuestions == Val(anPrompt).questions

\* input.userResponses holds a response for question i / the response it holds.
HasResponse(i) == AnalyzeQuestions[i].id \in DOMAIN Val(anInput).userResponses
ResponseTo(i) == Val(anInput).userResponses[AnalyzeQuestions[i].id]

\* The ids of the options of question i.
OptionIdsOf(i) ==
    IF IsDef(AnalyzeQuestions[i].options)
    THEN {Val(AnalyzeQuestions[i].options)[k].id :
             k \in 1..Len(Val(AnalyzeQuestions[i].options))}
    ELSE {}

\* C11: for every question, objective or subjective, whose id has no recorded
\* response in userResponses, the pre-processing of analyzeTestResults
\* resolves userAnswerTextForPrompt to "No answer provided".
C11_NoResponseIsNoAnswerProvided ==
    IsDef(anPrompt) =>
        /\ Len(PromptQuestions) = Len(AnalyzeQuestions)
        /\ \A i \in 1..Len(AnalyzeQuestions) :
              ~HasResponse(i) =>
                  PromptQuestions[i].userAnswerTextForPrompt = "No answer provided"

C11_Witness ==
    /\ IsDef(anPrompt)
    /\ Len(AnalyzeQuestions) = 2
    /\ AnalyzeQuestions[1].type = "objective"
    /\ AnalyzeQuestions[2].type = "subjective"
    /\ ~HasResponse(1)
    /\ ~HasResponse(2)
    /\ PromptQuestions[1].userAnswerTextForPrompt = "No answer provided"
    /\ PromptQuestions[2].userAnswerTextForPrompt = "No answer provided"

\* C12: for every objective question with a recorded (non-empty) response, the
\* pre-processing of analyzeTestResults resolves the text of the option whose
\* id the response is, and "Invalid option selected by user" when the
\* response is the id of no option of the question.
C12_ObjectiveResponseResolved ==
    IsDef(anPrompt) =>
        \A i \in 1..Len(AnalyzeQuestions) :
            (AnalyzeQuestions[i].type = "objective" /\ HasResponse(i) /\ ResponseTo(i) # "") =>
                IF ResponseTo(i) \in OptionIdsOf(i)
                THEN \E k \in 1..Len(Val(AnalyzeQuestions[i].options)) :
                        /\ Val(AnalyzeQuestions[i].options)[k].id = ResponseTo(i)
                        /\ PromptQuestions[i].userAnswerTextForPrompt =
                               Val(AnalyzeQuestions[i].options)[k].text
                ELSE PromptQuestions[i].userAnswerTextForPrompt =
                         "Invalid option selected by user"

\* A score that is null or a percentage between 0 and 100.
IsPercentageOrNull(score) ==
    IsDef(score) => (Val(score).num >= 0 /\ Val(score).num <= 100 * Val(score).den)

\* C21: every report analyzeTestResults returns has an overallScore that is
\* null or a percentage between 0 and 100 inclusive.
C21_OverallScoreIsPercentageOrNull ==
    (anPc = "done" /\ IsDef(anResult)) => IsPercentageOrNull(Val(anResult).overallScore)

(***************************************************************************)
(* Properties of generateMultipleFlashcards                                *)
(***************************************************************************)
\* The numberOfCards the caller asked for, 5 when the caller gave none.
RequestedCards ==
    IF IsDef(Val(fcInput).numberOfCards) THEN Val(Val(fcInput).numberOfCards) ELSE 5

\* C13: for every numberOfCards of the caller (absent, zero, negative, below
\* 5, 5 and above) the numberOfCards passed to the model is
\* max(numberOfCards, 5), an absent value counting as 5; it is never below 5.
C13_NumberOfCardsClamped ==
    IsDef(fcModelInput) =>
        /\ Val(fcModelInput).numberOfCards = (IF RequestedCards >= 5 THEN RequestedCards ELSE 5)
        /\ Val(fcModelInput).numberOfCards >= 5

C13_Witness ==
    /\ IsDef(fcModelInput)
    /\ Val(fcInput).numberOfCards = Def(2)
    /\ Val(fcModelInput).numberOfCards = 5
    /\ fcModelCalls = 1

\* C14: every successful invocation of generateMultipleFlashcards returns at
\* least 5 flashcards, in the first invocation and in one repeated with the
\* same input.
C14_AtLeastFiveFlashcards ==
    fcPc = "done" => Len(Val(Val(fcResult).flashcards)) >= 5

(***************************************************************************)
(* Properties of all the flows                                             *)
(***************************************************************************)
Flows ==
    {"generateTest", "generateStudyPlan", "analyzeTestResults",
     "generateMultipleFlashcards"} \cup TextFlows

\* The position of an invocation of the flow and the calls of the model it
\* has issued.
FlowPc(flow) ==
    CASE flow = "generateTest" -> gtPc
      [] flow = "generateStudyPlan" -> spPc
      [] flow = "analyzeTestResults" -> anPc
      [] flow = "generateMultipleFlashcards" -> fcPc
      [] OTHER -> sfPc[flow]

FlowModelCalls(flow) ==
    CASE flow = "generateTest" -> gtModelCalls
      [] flow = "generateStudyPlan" -> spModelCalls
      [] flow = "analyzeTestResults" -> anModelCalls
      [] flow = "generateMultipleFlashcards" -> fcModelCalls
      [] OTHER -> sfModelCalls[flow]

\* The flow returned a value that is null or holds nothing: no list, an empty
\* list, no text or an empty text.
ReturnedEmpty(flow) ==
    CASE flow = "generateTest" ->
            ~IsDef(gtResult) \/ Len(Val(gtResult).questions) = 0
      [] flow = "generateStudyPlan" ->
            \/ ~IsDef(spResult)
            \/ ~IsDef(Val(spResult).dailySessions)
            \/ Len(Val(Val(spResult).dailySessions)) = 0
      [] flow = "analyzeTestResults" -> ~IsDef(anResult)
      [] flow = "generateMultipleFlashcards" ->
            \/ ~IsDef(fcResult)
            \/ ~IsDef(Val(fcResult).flashcards)
            \/ Len(Val(Val(fcResult).flashcards)) = 0
      [] OTHER ->
            \/ ~IsDef(sfResult[flow])
            \/ ~IsDef(Val(sfResult[flow]).value)
            \/ Val(Val(sfResult[flow]).value) = ""

\* C15: in every flow a model call that completes with a missing or empty
\* output ends the invocation in an error: no flow returns an empty or null
\* result to its caller.
C15_NoEmptyResult ==
    \A flow \in Flows : FlowPc(flow) = "done" => ~ReturnedEmpty(flow)

\* C16: every invocation of a flow issues at most one call of the model;
\* while the call is pending no further call is made, and the invocation ends
\* failed or done without another call.
C16_AtMostOneModelCall ==
    [][\A flow \in Flows :
          /\ FlowModelCalls(flow)' <= 1
          /\ FlowPc(flow) = "awaitingModel" =>
                /\ FlowModelCalls(flow)' = FlowModelCalls(flow)
                /\ FlowPc(flow)' \in {"awaitingModel", "failed", "done"}
          /\ (FlowPc(flow) = "failed" /\ FlowPc(flow)' # "failed") =>
                /\ flow = "generateMultipleFlashcards"
                /\ fcInvocations' = fcInvocations + 1]_vars

\* Every flow has called the model once and has failed.
C16_Witness ==
    \A flow \in Flows : FlowPc(flow) = "failed" /\ FlowModelCalls(flow) = 1

\* C20: the post-processing of generateTest invents no content: the returned
\* list has as many questions as the list of the model, in the same order,
\* the type, questionText and correctAnswerText of each question and the
\* text of each of its options are those of the model, and a question gets
\* no option the model did not give.
C20_PostProcessingInventsNoContent ==
    gtPc = "done" =>
        /\ Len(ResultQuestions) = Len(ModelQuestionsReturned)
        /\ \A i \in 1..Len(ResultQuestions) :
              LET q == ResultQuestions[i]
                  m == ModelQuestionsReturned[i]
              IN  /\ q.type = m.type
                  /\ q.questionText = m.questionText
                  /\ q.correctAnswerText = m.correctAnswerText
                  /\ IsDef(q.options) =>
                        IF IsDef(m.options)
                        THEN /\ Len(Val(q.options)) = Len(Val(m.options))
                             /\ \A k \in 1..Len(Val(q.options)) :
                                   Val(q.options)[k].text = Val(m.options)[k].text
                        ELSE Val(q.options) = <<>>

C20_Witness ==
    /\ gtPc = "done"
    /\ Len(ResultQuestions) = 2
    /\ ModelQuestionsReturned[1].questionText = "Explain gravity."
    /\ ModelQuestionsReturned[1].correctAnswerText = Undefined
    /\ ModelQuestionsReturned[2].questionText = "Capital of France?"
    /\ ResultQuestions[1].questionText = "Explain gravity."
    /\ ResultQuestions[1].correctAnswerText = Undefined
    /\ ResultQuestions[2].questionText = "Capital of France?"
    /\ ResultQuestions[1].id # "q1"
    /\ IsDef(ResultQuestions[1].options)
    /\ Len(Val(ResultQuestions[1].options)) = 2
    /\ Val(ResultQuestions[1].options)[1].text = "Rome"
    /\ Val(ResultQuestions[1].options)[2].text = "Paris"

(***************************************************************************)
(* Properties of createNewConversation                                     *)
(***************************************************************************)
FirstContent == Val(cvMessage).content
StoredTitle == Val(cvStore).title

\* C19: when summarizeConversation fails during createNewConversation, the
\* conversation is still created and stored with its first message, and its
\* title is the first 50 characters of the text of the first message,
\* followed by "..." exactly when the text is longer than 50 characters.
C19_SummaryFailureFallsBackToTruncatedTitle ==
    (cvCaught /\ cvPc = "done") =>
        /\ IsDef(cvStore)
        /\ Val(cvStore).messages = <<Val(cvMessage)>>
        /\ IF Len(FirstContent) > 50
           THEN /\ Len(StoredTitle) = 53
                /\ \A i \in 1..50 : StoredTitle[i] = FirstContent[i]
                /\ \A i \in 51..53 : StoredTitle[i] = "."
           ELSE StoredTitle = FirstContent

C19_Witness ==
    /\ cvCaught
    /\ cvPc = "done"
    /\ Len(FirstContent) = 51
    /\ Len(StoredTitle) = 53
    /\ StoredTitle[50] = FirstContent[50]
    /\ StoredTitle[53] = "."

(***************************************************************************)
(* Properties of generateStudyPlan                                         *)
(***************************************************************************)
\* Minutes since midnight of a 12-hour clock time.
MinutesSinceMidnight(t) == (t.hh % 12) * 60 + t.mm + (IF t.pm THEN 720 ELSE 0)

\* The clock time a start time of the model stands for, and the calendar
\* date a date of the model stands for.
TimesWritten == [str \in StartTimeStrings |->
                    CHOOSE t \in StartClockTimes : WriteTime(t) = str]
DatesWritten == [str \in DateStrings |-> CHOOSE d \in PlanDates : WriteDate(d) = str]
TimeWritten(str) == TimesWritten[str]
DateWritten(str) == DatesWritten[str]

DateNotAfter(a, b) ==
    \/ a.y < b.y
    \/ a.y = b.y /\ a.m < b.m
    \/ a.y = b.y /\ a.m = b.m /\ a.d <= b.d

ResultDays == Val(Val(spResult).dailySessions)
ModelDaysReturned == Val(Val(spModelOutput).dailySessions)

\* C5: whatever the order of the model's response, the plan returned by
\* generateStudyPlan has its days in non-decreasing order of date and, in
\* every day, its sessions in non-decreasing order of start time (minutes
\* since midnight).
C5_PlanSorted ==
    spPc = "done" =>
        /\ \A i \in 1..(Len(ResultDays) - 1) :
              DateNotAfter(DateWritten(ResultDays[i].date),
                           DateWritten(ResultDays[i + 1].date))
        /\ \A i \in 1..Len(ResultDays) :
              LET ss == Val(ResultDays[i].sessions)
              IN  \A j \in 1..(Len(ss) - 1) :
                     MinutesSinceMidnight(TimeWritten(ss[j].startTime))
                        <= MinutesSinceMidnight(TimeWritten(ss[j + 1].startTime))

\* A response with its days out of order and, in the second day written,
\* 12:15 AM after 09:00 AM.
C5_Witness ==
    /\ spPc = "done"
    /\ Len(ModelDaysReturned) = 2
    /\ ModelDaysReturned[1].date = WriteDate([y |-> 2025, m |-> 2, d |-> 1])
    /\ ModelDaysReturned[2].date = WriteDate([y |-> 2024, m |-> 12, d |-> 31])
    /\ IsDef(ModelDaysReturned[2].sessions)
    /\ Len(Val(ModelDaysReturned[2].sessions)) = 2
    /\ TimeWritten(Val(ModelDaysReturned[2].sessions)[1].startTime).hh = 9
    /\ TimeWritten(Val(ModelDaysReturned[2].sessions)[2].startTime).hh = 12
    /\ ~TimeWritten(Val(ModelDaysReturned[2].sessions)[2].startTime).pm
    /\ ResultDays[1].date = WriteDate([y |-> 2024, m |-> 12, d |-> 31])
    /\ TimeWritten(Val(ResultDays[1].sessions)[1].startTime).hh = 12

\* C6: convertTime maps every 12-hour time "hh:mm AM/PM" to its minutes since
\* midnight: (hh mod 12) * 60 + mm for AM, 720 more for PM; 12:00 AM gives 0,
\* 12:00 PM gives 720 and 11:59 PM gives 1439.
C6_ConvertTimeIsMinutesSinceMidnight ==
    IsDef(ctResult) =>
        /\ Val(ctResult) = (ctTime.hh % 12) * 60 + ctTime.mm
                           + (IF ctTime.pm THEN 720 ELSE 0)
        /\ Val(ctResult) \in 0..1439
        /\ (ctTime.hh = 12 /\ ctTime.mm = 0 /\ ~ctTime.pm) => Val(ctResult) = 0
        /\ (ctTime.hh = 12 /\ ctTime.mm = 0 /\ ctTime.pm) => Val(ctResult) = 720
        /\ (ctTime.hh = 11 /\ ctTime.mm = 59 /\ ctTime.pm) => Val(ctResult) = 1439

C6_Witness ==
    /\ ctInput = <<"1", "2", ":", "0", "0", " ", "A", "M">>
    /\ ctResult = Def(0)

\* The input of generateStudyPlan violates the request schema in one of the
\* four ways.
PlanInputViolatesSchema ==
    \/ Val(spInput).exams = <<>>
    \/ \E i \in 1..Len(Val(spInput).exams) : Val(spInput).exams[i].subject = ""
    \/ Val(spInput).learningPace \notin {"relaxed", "moderate", "intensive"}
    \/ /\ IsDef(Val(spInput).studyHoursPerWeek)
       /\ Val(Val(spInput).studyHoursPerWeek) \notin 1..70

\* C18: generateStudyPlan fails before any model call whenever its input has
\* an empty exams list, an exam with an empty subject, a learningPace outside
\* {relaxed, moderate, intensive} or a studyHoursPerWeek outside 1..70.
C18_InvalidPlanInputFailsBeforeModel ==
    (IsDef(spInput) /\ PlanInputViolatesSchema) =>
        /\ spPc = "failed"
        /\ spModelCalls = 0
        /\ ~IsDef(spResult)

C18_Witness ==
    /\ IsDef(spInput)
    /\ Val(spInput).exams = <<>>
    /\ Val(spInput).learningPace = "moderate"
    /\ ~IsDef(Val(spInput).studyHoursPerWeek)
    /\ spPc = "failed"
    /\ spModelCalls = 0

\* The elements of a sequence with the number of times each occurs.
Occurrences(seq) ==
    [x \in {seq[i] : i \in 1..Len(seq)} |-> Cardinality({i \in 1..Len(seq) : seq[i] = x})]

\* A day without the order of its sessions.
DayContent(day) ==
    [date |-> day.date,
     sessions |-> IF IsDef(day.sessions) THEN Def(Occurrences(Val(day.sessions)))
                  ELSE Undefined]

DayContents(days) == Occurrences([i \in 1..Len(days) |-> DayContent(days[i])])

\* C22: the post-processing of generateStudyPlan only reorders: the returned
\* days are the days of the model, each as often as the model gave it, and
\* the sessions of each day are that day's sessions, each as often as the
\* model gave it; nothing is added, dropped, merged, changed or moved to
\* another day.
C22_PostProcessingOnlyReorders ==
    spPc = "done" => DayContents(ResultDays) = DayContents(ModelDaysReturned)

C22_Witness ==
    /\ spPc = "done"
    /\ Len(ModelDaysReturned) = 2
    /\ ModelDaysReturned[1].date # ModelDaysReturned[2].date
    /\ ResultDays[1].date = ModelDaysReturned[2].date
    /\ ResultDays[2].date = ModelDaysReturned[1].date
    /\ IsDef(ModelDaysReturned[1].sessions)
    /\ Len(Val(ModelDaysReturned[1].sessions)) = 2
    /\ Val(ResultDays[2].sessions)[1] = Val(ModelDaysReturned[1].sessions)[2]
    /\ Val(ResultDays[2].sessions)[2] = Val(ModelDaysReturned[1].sessions)[1]
    /\ Val(ResultDays[2].sessions)[1] # Val(ResultDays[2].sessions)[2]

(***************************************************************************)
(* Properties of the test submission sequence.                             *)
(***************************************************************************)
\* The messages of a 503, overloaded or unavailable failure of the model.
UnavailableMessages == {MsgOverloaded, Msg503, MsgServiceUnavailable}

\* The call of analyzeTestResults of session s ends in this step with a 503,
\* overloaded or unavailable error.
AnalysisUnavailableStep(s) ==
    /\ smRun[s].pc = "analyze"
    /\ smRun'[s].pc # "analyze"
    /\ IsDef(smRun'[s].aiError)
    /\ Val(smRun'[s].aiError) \in UnavailableMessages

\* The submission of session s, whose analysis failed with such an error,
\* ends in this step.
UnavailableSubmissionEnds(s) ==
    /\ smRun[s].pc = "save"
    /\ IsDef(smRun[s].aiError)
    /\ Val(smRun[s].aiError) \in UnavailableMessages
    /\ smRun'[s].pc # "save"

AnalysisOtherFailureStep(s) ==
    /\ smRun[s].pc = "analyze"
    /\ smRun'[s].pc # "analyze"
    /\ IsDef(smRun'[s].aiError)
    /\ Val(smRun'[s].aiError) \notin UnavailableMessages

\* C17: in the test submission sequence the basic report is substituted only
\* when analyzeTestResults fails with a model-unavailable error; a failure of
\* another kind (a missing output, for one) ends the sequence with the error
\* reported and no analysis saved.
C17_OnlyUnavailableGetsBasicReport ==
    [][\A s \in Sessions :
          /\ AnalysisOtherFailureStep(s) =>
                /\ smRun'[s].pc = "idle"
                /\ ~IsDef(smRun'[s].analysisResult)
                /\ smUi'[s].submissionError =
                       Def(IF Val(smRun'[s].aiError) = <<>>
                           THEN DefaultErrorMessage ELSE Val(smRun'[s].aiError))
                /\ ~smUi'[s].isAnalyzing
                /\ smStore' = smStore
          /\ (smRun[s].pc = "analyze" /\ smRun'[s].pc = "save") =>
                \/ /\ ~IsDef(smRun'[s].aiError)
                   /\ smRun'[s].analysisResult \in {Def(report) : report \in AiReports}
                \/ /\ IsDef(smRun'[s].aiError)
                   /\ Val(smRun'[s].aiError) \in UnavailableMessages
                   /\ smRun'[s].analysisResult =
                          Def(generateBasicReport(Val(smRun[s].submittedTest)))]_vars

C17_Witness ==
    /\ smStore.status = "submitted"
    /\ ~IsDef(smStore.analysis)
    /\ \E s \in Sessions :
          /\ smRun[s].pc = "idle"
          /\ smRun[s].aiError = Def(MsgNoOutput)
          /\ smUi[s].submissionError = Def(MsgNoOutput)

\* C24: the status of a stored test only moves forward, and once the test is
\* "analyzed" no step of any submission sequence changes its status, its
\* userResponses or its analysis.
C24_AnalyzedTestIsNotOverwritten ==
    [][/\ (smStore.status = "submitted" => smStore'.status # "generated")
       /\ (smStore.status = "analyzed" =>
              /\ smStore'.status = "analyzed"
              /\ smStore'.userResponses = smStore.userResponses
              /\ smStore'.analysis = smStore.analysis)]_vars

\* A submission sequence is under way in some session.
SubmissionInProgress == \E s \in Sessions : smRun[s].pc # "idle"

\* Some session shows the test with its Submit Test button.
CanSubmitAgain == \E s \in Sessions : ~smUi[s].isLoading /\ ShowsTest(s)

\* C25: a test whose answers have been saved is never left in "submitted"
\* with no analysis and no way to leave that state: a submission sequence is
\* still going to save an analysis, or a session can submit the test again.
C25_SubmittedTestIsNotStuck ==
    (smStore.status = "submitted" /\ ~IsDef(smStore.analysis)) =>
        (SubmissionInProgress \/ CanSubmitAgain \/ \E s \in Sessions : smUi[s].isLoading)

(***************************************************************************)
(* Properties of the countdown                                             *)
(***************************************************************************)
\* C26: the countdown of a "generated" test with a time limit never goes
\* below zero, and when it has reached zero without the user having
\* submitted, handleSubmitTest(true) has been invoked exactly once.
C26_CountdownSubmitsAtZero ==
    IsDef(tmTimeLeft) =>
        /\ Val(tmTimeLeft) >= 0
        /\ (Val(tmTimeLeft) = 0 /\ ~tmUserSubmitted) => tmForcedSubmits = 1

\* Every tick takes one second off the countdown.
CountdownDecreasesByOne ==
    [][(IsDef(tmTimeLeft) /\ tmTimeLeft' # tmTimeLeft) =>
          (IsDef(tmTimeLeft') /\ Val(tmTimeLeft') = Val(tmTimeLeft) - 1)]_vars

(***************************************************************************)
(* Properties of the community posts                                       *)
(***************************************************************************)
\* A like of caller p has just been written.
LikeWritten(p) ==
    /\ cmProc[p].pc = "transaction"
    /\ cmProc'[p].pc = "idle"
    /\ cmPost' # cmPost

\* C27: after any interleaving of likeCommunityPost calls on a post created
\* by createCommunityPost, likes equals the number of user ids in likedBy
\* and is not negative, and a like of a user who has liked the post takes
\* likes and likedBy back to what they were before that user's like.
C27_LikesMatchLikedBy ==
    [][\A p \in Callers :
          LikeWritten(p) =>
             /\ Val(cmPost'.likes) = Cardinality(cmPost'.likedBy)
             /\ Val(cmPost'.likes) >= 0
             /\ cmProc[p].user \in cmPost.likedBy =>
                   /\ cmPost'.likedBy = cmPost.likedBy \ {cmProc[p].user}
                   /\ Val(cmPost'.likes) = Val(cmPost.likes) - 1
             /\ cmProc[p].user \notin cmPost.likedBy =>
                   /\ cmPost'.likedBy = cmPost.likedBy \cup {cmProc[p].user}
                   /\ Val(cmPost'.likes) = Val(cmPost.likes) + 1]_vars

\* Both users have liked the post and a user has taken the like back, while
\* the transaction of the other caller holds a value read before and has to
\* run its update function again.
C27_Witness ==
    /\ cmPost.likedBy = {"u2"}
    /\ cmPost.likes = Def(1)
    /\ cmProc["p1"].pc = "idle"
    /\ cmProc["p1"].op = "likeCommunityPost"
    /\ cmProc["p1"].user = "u1"
    /\ cmProc["p2"].pc = "transaction"
    /\ Val(cmProc["p2"].snap).post.likedBy = Users

AllCallsCompleted == \A p \in Callers : cmProc[p].pc = "idle"

\* C28: once all pending operations have completed, after any interleaving
\* of addCommentToCommunityPost and deleteCommunityComment calls on a post,
\* commentCount equals the number of comments stored under the post and is
\* not negative.
C28_CommentCountMatchesComments ==
    (cmPosted /\ AllCallsCompleted) =>
        /\ cmPost.commentCount = Def(Cardinality(DOMAIN cmComments))
        /\ Val(cmPost.commentCount) >= 0

\* What a guarded call of this function is aimed at: does it exist, and
\* whose is it.
TargetExists(op, commentId) ==
    IF op \in {"deleteCommunityPost", "updateCommunityPost"}
    THEN PostExists(cmPost, cmComments)
    ELSE commentId \in DOMAIN cmComments

TargetOwner(op, commentId) ==
    IF op \in {"deleteCommunityPost", "updateCommunityPost"}
    THEN cmPost.userId
    ELSE IF commentId \in DOMAIN cmComments THEN cmComments[commentId].userId
    ELSE Undefined

\* A call of caller p to one of the four guarded functions passes the checks.
GuardedCallPasses(p) ==
    /\ cmProc[p].pc = "idle"
    /\ cmProc'[p].pc = "write"
    /\ cmProc'[p].op \in GuardedOps

\* A call of caller p to one of the four guarded functions throws.
GuardedCallThrows(p) ==
    /\ cmProc[p].pc = "idle"
    /\ cmProc'[p].pc = "idle"
    /\ cmProc'[p] # cmProc[p]

\* Caller p, in one of the four guarded functions, changes the store.
GuardedCallWrites(p) ==
    /\ cmProc[p].pc # "idle"
    /\ cmProc[p].op \in GuardedOps
    /\ cmProc'[p] # cmProc[p]
    /\ <<cmPost, cmComments>>' # <<cmPost, cmComments>>

\* C30: deleteCommunityPost, updateCommunityPost, deleteCommunityComment and
\* updateCommunityCommentText called for a post or comment that does not
\* exist, or by a user who is not its author, fail with an error and leave
\* the post, its comments and commentCount unchanged: a call passes its
\* checks only for a post or comment that exists and whose userId is
\* currentUserId, a call that does not pass them throws and changes
\* nothing, and a call changes the store only if currentUserId was the
\* userId of the author it read.
C30_OnlyAuthorChangesStore ==
    [][\A p \in Callers :
          /\ GuardedCallPasses(p) =>
                LET call == cmProc'[p]
                IN  /\ TargetExists(call.op, call.comment)
                    /\ TargetOwner(call.op, call.comment) = Def(call.user)
          /\ GuardedCallThrows(p) =>
                /\ cmProc'[p].error # ""
                /\ <<cmPost, cmComments>>' = <<cmPost, cmComments>>
          /\ GuardedCallWrites(p) => cmProc[p].owner = Def(cmProc[p].user)]_vars

\* A user who is not the author of the comment has been refused its
\* deletion, the comment is still there, and the author of the post has
\* changed its text.
C30_Witness ==
    /\ cmProc["p1"].pc = "idle"
    /\ cmProc["p1"].error = ErrNotAuthorized("deleteCommunityComment")
    /\ DOMAIN cmComments = {1}
    /\ cmProc["p2"] = IdleCall
    /\ cmPost.userId = Def("u1")
    /\ cmPost.questionText = Def("Why not?")
    /\ cmPost.commentCount = Def(1)

(***************************************************************************)
(* Properties of the flashcard sets                                        *)
(***************************************************************************)
\* C29: after any sequence of completed addFlashcardToSet and
\* deleteFlashcardFromSet calls on a set created by createFlashcardSet,
\* flashcardCount equals the number of flashcards stored for the set and is
\* not negative.
C29_FlashcardCountMatchesCards ==
    fsCreated =>
        /\ fsSet = Def(Cardinality(fsCards))
        /\ Val(fsSet) >= 0

(***************************************************************************)
(* Properties of generateBasicReport                                       *)
(***************************************************************************)
Report == Val(rpReport)
ReportQuestions == rpTest.questions
StoredAnswer(i) == Lookup(rpTest.userResponses, ReportQuestions[i].id)

\* Every question is objective and has a stored response that is its
\* correctAnswerKey.
\* Every question is objective, and every response the test holds for a
\* question is the question's correctAnswerKey.
AllObjectiveStoredMatching ==
    \A i \in 1..Len(ReportQuestions) :
        /\ ReportQuestions[i].type = "objective"
        /\ IsDef(StoredAnswer(i)) => StoredAnswer(i) = ReportQuestions[i].correctAnswerKey

\* Every question is objective and the test holds a response for it, which is
\* the question's correctAnswerKey.
AllObjectiveAllMatching ==
    \A i \in 1..Len(ReportQuestions) :
        /\ ReportQuestions[i].type = "objective"
        /\ IsDef(StoredAnswer(i))
        /\ StoredAnswer(i) = ReportQuestions[i].correctAnswerKey

\* C8 as it is written: every test in which every question is objective and
\* every stored response matches the question's correctAnswerKey has a basic
\* report with overallScore 100 and isCorrect true in every entry.
C8_AllMatchingScores100 ==
    (IsDef(rpReport) /\ AllObjectiveStoredMatching) =>
        /\ Report.overallScore = Def([num |-> 100, den |-> 1])
        /\ \A i \in 1..Len(Report.questionAnalyses) :
              Report.questionAnalyses[i].isCorrect

\* C8, amended: every test of at least one question in which every question
\* is objective and has a stored response, which matches the question's
\* correctAnswerKey, has a basic report with overallScore 100 and isCorrect
\* true in every entry, one entry per question.
C8_AllMatchingNonEmptyScores100 ==
    (IsDef(rpReport) /\ AllObjectiveAllMatching /\ Len(ReportQuestions) >= 1) =>
        /\ Report.overallScore = Def([num |-> 100, den |-> 1])
        /\ Len(Report.questionAnalyses) = Len(ReportQuestions)
        /\ \A i \in 1..Len(Report.questionAnalyses) :
              Report.questionAnalyses[i].isCorrect

C8_Witness ==
    /\ IsDef(rpReport)
    /\ AllObjectiveAllMatching
    /\ Len(ReportQuestions) = 2
    /\ Report.overallScore = Def([num |-> 100, den |-> 1])

ObjectivePositions == {i \in 1..Len(ReportQuestions) : ReportQuestions[i].type = "objective"}
CorrectPositions ==
    {i \in ObjectivePositions :
        IsDef(StoredAnswer(i)) /\ StoredAnswer(i) = ReportQuestions[i].correctAnswerKey}

\* C9: in the basic report an objective question's isCorrect is true exactly
\* when the stored response's option id equals the question's
\* correctAnswerKey, and overallScore is 100 * (correct objective questions)
\* / (objective questions), null when the test has no objective question.
C9_BasicReportScore ==
    IsDef(rpReport) =>
        /\ \A i \in ObjectivePositions :
              Report.questionAnalyses[i].isCorrect <=> i \in CorrectPositions
        /\ IF ObjectivePositions = {}
           THEN Report.overallScore = Undefined
           ELSE /\ IsDef(Report.overallScore)
                /\ Val(Report.overallScore).num * Cardinality(ObjectivePositions)
                     = 100 * Cardinality(CorrectPositions) * Val(Report.overallScore).den

C9_Witness ==
    /\ IsDef(rpReport)
    /\ Cardinality(ObjectivePositions) = 2
    /\ Cardinality(CorrectPositions) = 1
    /\ Report.overallScore = Def([num |-> 50, den |-> 1])
    /\ \E i \in ObjectivePositions :
          /\ IsDef(StoredAnswer(i))
          /\ StoredAnswer(i) # ReportQuestions[i].correctAnswerKey
          /\ ~Report.questionAnalyses[i].isCorrect

\* rpTest without its subjective questions.
ObjectiveQuestionsOnly ==
    [rpTest EXCEPT !.questions =
        SelectSeq(rpTest.questions, LAMBDA q : q.type = "objective")]

\* C10: in the basic report every subjective question gets the feedback that
\* AI feedback is unavailable, no suggestedScoreOutOfTen and isCorrect false,
\* and the subjective questions change neither the numerator nor the
\* denominator of overallScore, whatever the user answered.
C10_SubjectiveGetsPlaceholder ==
    IsDef(rpReport) =>
        /\ \A i \in 1..Len(ReportQuestions) :
              ReportQuestions[i].type = "subjective" =>
                  /\ Report.questionAnalyses[i].feedback
                        = "AI-powered feedback is temporarily unavailable for this question."
                  /\ Report.questionAnalyses[i].suggestedScoreOutOfTen = Undefined
                  /\ Report.questionAnalyses[i].isCorrect = FALSE
        /\ CorrectObjectiveAnswers(rpTest) = Cardinality(CorrectPositions)
        /\ TotalObjectiveQuestions(rpTest) = Cardinality(ObjectivePositions)
        /\ Report.overallScore = BasicOverallScore(ObjectiveQuestionsOnly)

C10_Witness ==
    /\ IsDef(rpReport)
    /\ Len(ReportQuestions) = 2
    /\ ReportQuestions[1].type = "objective"
    /\ ReportQuestions[2].type = "subjective"
    /\ StoredAnswer(2) = Def("Paris is a city.")
    /\ Report.questionAnalyses[2].isCorrect = FALSE
    /\ Report.overallScore = Def([num |-> 100, den |-> 1])

(***************************************************************************)
(* Specifications                                                          *)
(***************************************************************************)
\* The parts of the state a specification does not use stay as constructed.
CtUnused == ctTime = Undefined /\ ctInput = <<>> /\ ctResult = Undefined

\* generateTest with every input; the model answers with a short response.
GuardOutputs ==
    EmptyOutputs \cup {OutputOf(<<q>>) : q \in PlainQuestions}

InitGuard == GtInit /\ CtUnused /\ SpInit /\ RpUnused /\ SmUnused /\ RestUnused

NextGuard ==
    \/ /\ \E input \in GenerateTestInputs : GenerateTest(input)
       /\ UNCHANGED <<ctVars, spVars, rpVars, smVars, restVars>>
    \/ /\ \E output \in GuardOutputs : PromptReturns(output)
       /\ UNCHANGED <<ctVars, spVars, rpVars, smVars, restVars>>
    \/ /\ PromptFails
       /\ UNCHANGED <<ctVars, spVars, rpVars, smVars, restVars>>

SpecGuard == InitGuard /\ [][NextGuard]_vars

\* generateTest with the default counts, a rejected input and every response
\* of up to MaxQuestions questions.
PostInputs ==
    {[numSubjective |-> Undefined, numObjective |-> Undefined],
     [numSubjective |-> Def(0), numObjective |-> Def(0)]}

Init == GtInit /\ CtUnused /\ SpInit /\ RpUnused /\ SmUnused /\ RestUnused

Next ==
    \/ /\ \E input \in PostInputs : GenerateTest(input)
       /\ UNCHANGED <<ctVars, spVars, rpVars, smVars, restVars>>
    \/ /\ \E output \in EmptyOutputs : PromptReturns(output)
       /\ UNCHANGED <<ctVars, spVars, rpVars, smVars, restVars>>
    \/ /\ gtPc = "awaitingModel"
       /\ \E n \in 1..MaxQuestions :
            \E k \in 1..n, q \in ModelQuestions, rest \in [1..n -> PlainQuestions] :
               PromptReturns(OutputOf(QuestionList(n, k, q, rest)))
       /\ UNCHANGED <<ctVars, spVars, rpVars, smVars, restVars>>
    \/ /\ PromptFails
       /\ UNCHANGED <<ctVars, spVars, rpVars, smVars, restVars>>

Spec == Init /\ [][Next]_vars

\* convertTime applied to every 12-hour clock time.
InitTime == GtInit /\ CtInit /\ SpInit /\ RpUnused /\ SmUnused /\ RestUnused

NextTime == ConvertTime /\ UNCHANGED <<gtVars, spVars, rpVars, smVars, restVars>>

SpecTime == InitTime /\ [][NextTime]_vars

\* generateStudyPlan with an accepted and a rejected input and every
\* response of up to MaxDays days.
PlanInputs ==
    {[exams |-> <<[subject |-> "Math"]>>, learningPace |-> "moderate",
      studyHoursPerWeek |-> Undefined],
     [exams |-> <<>>, learningPace |-> "moderate", studyHoursPerWeek |-> Undefined]}

InitPlan == GtInit /\ CtUnused /\ SpInit /\ RpUnused /\ SmUnused /\ RestUnused

NextPlan ==
    \/ /\ \E input \in PlanInputs : GenerateStudyPlan(input)
       /\ UNCHANGED <<gtVars, ctVars, rpVars, smVars, restVars>>
    \/ /\ \E output \in EmptyPlanOutputs : PlanPromptReturns(output)
       /\ UNCHANGED <<gtVars, ctVars, rpVars, smVars, restVars>>
    \/ /\ spPc = "awaitingModel"
       /\ \E n \in 1..MaxDays :
            \E k \in 1..n, day \in ModelDays, rest \in [1..n -> PlainDays] :
               PlanPromptReturns(PlanOutputOf(DayList(n, k, day, rest)))
       /\ UNCHANGED <<gtVars, ctVars, rpVars, smVars, restVars>>
    \/ /\ PlanPromptFails
       /\ UNCHANGED <<gtVars, ctVars, rpVars, smVars, restVars>>

SpecPlan == InitPlan /\ [][NextPlan]_vars

\* generateBasicReport applied to every submitted test of up to
\* MaxReportQuestions questions.
InitReport == GtInit /\ CtUnused /\ SpInit /\ RpInit /\ SmUnused /\ RestUnused

NextReport == BasicReport /\ UNCHANGED <<gtVars, ctVars, spVars, smVars, restVars>>

SpecReport == InitReport /\ [][NextReport]_vars

\* Two sessions of the test page submit the same test: every interleaving of
\* their handlers' steps, the analysis returning a report or failing.
InitSubmit == GtInit /\ CtUnused /\ SpInit /\ RpUnused /\ SmInit /\ RestUnused

NextSubmit ==
    \E s \in Sessions :
        \/ /\ LoadTest(s)
           /\ UNCHANGED <<gtVars, ctVars, spVars, rpVars, restVars>>
        \/ /\ \E i \in 1..Len(smStore.questions) :
                 \E answerValue \in PageAnswers(smStore.questions[i]) :
                    HandleAnswerChange(s, i, answerValue)
           /\ UNCHANGED <<gtVars, ctVars, spVars, rpVars, restVars>>
        \/ /\ \E forceSubmit \in BOOLEAN : HandleSubmitTest(s, forceSubmit)
           /\ UNCHANGED <<gtVars, ctVars, spVars, rpVars, restVars>>
        \/ /\ SubmitUpdate(s)
           /\ UNCHANGED <<gtVars, ctVars, spVars, rpVars, restVars>>
        \/ /\ SubmitGet(s)
           /\ UNCHANGED <<gtVars, ctVars, spVars, rpVars, restVars>>
        \/ /\ \E report \in AiReports : AnalysisReturns(s, report)
           /\ UNCHANGED <<gtVars, ctVars, spVars, rpVars, restVars>>
        \/ /\ \E message \in AnalysisErrorMessages : AnalysisFails(s, message)
           /\ UNCHANGED <<gtVars, ctVars, spVars, rpVars, restVars>>
        \/ /\ SaveAnalysis(s)
           /\ UNCHANGED <<gtVars, ctVars, spVars, rpVars, restVars>>

SpecSubmit == InitSubmit /\ [][NextSubmit]_vars

\* analyzeTestResults called once with every input of up to
\* MaxAnalyzeQuestions questions, the model answering or failing.
InitAnalyze == GtInit /\ CtUnused /\ SpInit /\ RpUnused /\ SmUnused /\ RestUnused

NextAnalyze ==
    \/ /\ anPc = "idle"
       /\ \E n \in 0..MaxAnalyzeQuestions :
             \E cases \in [1..n -> AnalyzeCases] :
                AnalyzeTestResults(AnalyzeInputOf(n, cases))
       /\ UNCHANGED <<gtVars, ctVars, spVars, rpVars, smVars, fcVars, sfVars, cvVars, tmVars, cmVars, fsVars>>
    \/ /\ \E output \in AnalysisOutputs : AnalysisPromptReturns(output)
       /\ UNCHANGED <<gtVars, ctVars, spVars, rpVars, smVars, fcVars, sfVars, cvVars, tmVars, cmVars, fsVars>>
    \/ /\ \E report \in ScoredReports : AnalysisPromptReturns(Def(report))
       /\ UNCHANGED <<gtVars, ctVars, spVars, rpVars, smVars, fcVars, sfVars, cvVars, tmVars, cmVars, fsVars>>
    \/ /\ AnalysisPromptFails
       /\ UNCHANGED <<gtVars, ctVars, spVars, rpVars, smVars, fcVars, sfVars, cvVars, tmVars, cmVars, fsVars>>

SpecAnalyze == InitAnalyze /\ [][NextAnalyze]_vars

\* generateMultipleFlashcards invoked up to MaxInvocations times with every
\* input, the model answering with up to MaxCards flashcards or failing.
InitFlashcards == GtInit /\ CtUnused /\ SpInit /\ RpUnused /\ SmUnused /\ RestUnused

NextFlashcards ==
    \/ /\ \E input \in FlashcardInputs : GenerateMultipleFlashcards(input)
       /\ UNCHANGED <<gtVars, ctVars, spVars, rpVars, smVars, anVars, sfVars, cvVars, tmVars, cmVars, fsVars>>
    \/ /\ \E output \in FlashcardOutputs : FlashcardsPromptReturns(output)
       /\ UNCHANGED <<gtVars, ctVars, spVars, rpVars, smVars, anVars, sfVars, cvVars, tmVars, cmVars, fsVars>>
    \/ /\ FlashcardsPromptFails
       /\ UNCHANGED <<gtVars, ctVars, spVars, rpVars, smVars, anVars, sfVars, cvVars, tmVars, cmVars, fsVars>>

SpecFlashcards == InitFlashcards /\ [][NextFlashcards]_vars

\* The seven flows, each invoked with one input (generateMultipleFlashcards
\* up to MaxInvocations times) and running side by side, the model answering
\* each with no output, an empty output or a full one, or failing.
FlowTestOutputs == EmptyOutputs \cup {OutputOf(<<q>>) : q \in PlainQuestions}
FlowPlanOutputs ==
    EmptyPlanOutputs
    \cup {PlanOutputOf(<<[date |-> WriteDate([y |-> 2025, m |-> 1, d |-> 31]), sessions |-> Def(<<>>)]>>)}
FlowFlashcardOutputs ==
    {output \in FlashcardOutputs :
        IsDef(output) /\ IsDef(Val(output).flashcards)
            => Len(Val(Val(output).flashcards)) \in {0, MinNumberOfCards}}

InitFlows == GtInit /\ CtUnused /\ SpInit /\ RpUnused /\ SmUnused /\ RestUnused

NextFlows ==
    \/ /\ GenerateTest([numSubjective |-> Undefined, numObjective |-> Undefined])
       /\ UNCHANGED <<ctVars, spVars, rpVars, smVars, restVars>>
    \/ /\ \E output \in FlowTestOutputs : PromptReturns(output)
       /\ UNCHANGED <<ctVars, spVars, rpVars, smVars, restVars>>
    \/ /\ PromptFails
       /\ UNCHANGED <<ctVars, spVars, rpVars, smVars, restVars>>
    \/ /\ GenerateStudyPlan([exams |-> <<[subject |-> "Math"]>>,
                             learningPace |-> "moderate",
                             studyHoursPerWeek |-> Undefined])
       /\ UNCHANGED <<gtVars, ctVars, rpVars, smVars, restVars>>
    \/ /\ \E output \in FlowPlanOutputs : PlanPromptReturns(output)
       /\ UNCHANGED <<gtVars, ctVars, rpVars, smVars, restVars>>
    \/ /\ PlanPromptFails
       /\ UNCHANGED <<gtVars, ctVars, rpVars, smVars, restVars>>
    \/ /\ anPc = "idle"
       /\ AnalyzeTestResults(AnalyzeInputOf(0, <<>>))
       /\ UNCHANGED <<gtVars, ctVars, spVars, rpVars, smVars, fcVars, sfVars, cvVars, tmVars, cmVars, fsVars>>
    \/ /\ \E output \in AnalysisOutputs : AnalysisPromptReturns(output)
       /\ UNCHANGED <<gtVars, ctVars, spVars, rpVars, smVars, fcVars, sfVars, cvVars, tmVars, cmVars, fsVars>>
    \/ /\ AnalysisPromptFails
       /\ UNCHANGED <<gtVars, ctVars, spVars, rpVars, smVars, fcVars, sfVars, cvVars, tmVars, cmVars, fsVars>>
    \/ /\ GenerateMultipleFlashcards([topic |-> "Biology", numberOfCards |-> Def(2)])
       /\ UNCHANGED <<gtVars, ctVars, spVars, rpVars, smVars, anVars, sfVars, cvVars, tmVars, cmVars, fsVars>>
    \/ /\ \E output \in FlowFlashcardOutputs : FlashcardsPromptReturns(output)
       /\ UNCHANGED <<gtVars, ctVars, spVars, rpVars, smVars, anVars, sfVars, cvVars, tmVars, cmVars, fsVars>>
    \/ /\ FlashcardsPromptFails
       /\ UNCHANGED <<gtVars, ctVars, spVars, rpVars, smVars, anVars, sfVars, cvVars, tmVars, cmVars, fsVars>>
    \/ /\ \E flow \in TextFlows : CallTextFlow(flow)
       /\ UNCHANGED <<gtVars, ctVars, spVars, rpVars, smVars, anVars, fcVars, cvVars, tmVars, cmVars, fsVars>>
    \/ /\ \E flow \in TextFlows : \E output \in TextOutputs(flow) :
             TextPromptReturns(flow, output)
       /\ UNCHANGED <<gtVars, ctVars, spVars, rpVars, smVars, anVars, fcVars, cvVars, tmVars, cmVars, fsVars>>
    \/ /\ \E flow \in TextFlows : TextPromptFails(flow)
       /\ UNCHANGED <<gtVars, ctVars, spVars, rpVars, smVars, anVars, fcVars, cvVars, tmVars, cmVars, fsVars>>

SpecFlows == InitFlows /\ [][NextFlows]_vars

\* generateStudyPlan called once with every input of StudyPlanInputs, the
\* model answering a valid one with no day or one day, or failing.
PlanGuardOutputs == EmptyPlanOutputs \cup {PlanOutputOf(<<day>>) : day \in PlainDays}

InitPlanGuard == GtInit /\ CtUnused /\ SpInit /\ RpUnused /\ SmUnused /\ RestUnused

NextPlanGuard ==
    \/ /\ \E input \in StudyPlanInputs : GenerateStudyPlan(input)
       /\ UNCHANGED <<gtVars, ctVars, rpVars, smVars, restVars>>
    \/ /\ \E output \in PlanGuardOutputs : PlanPromptReturns(output)
       /\ UNCHANGED <<gtVars, ctVars, rpVars, smVars, restVars>>
    \/ /\ PlanPromptFails
       /\ UNCHANGED <<gtVars, ctVars, rpVars, smVars, restVars>>

SpecPlanGuard == InitPlanGuard /\ [][NextPlanGuard]_vars

\* createNewConversation called once with every first message, the
\* summarization returning a summary or failing.
InitConversation == GtInit /\ CtUnused /\ SpInit /\ RpUnused /\ SmUnused /\ RestUnused

NextConversation ==
    \/ /\ \E user \in ConversationUsers, firstMessage \in FirstMessages :
             CreateNewConversation(user, firstMessage)
       /\ UNCHANGED <<gtVars, ctVars, spVars, rpVars, smVars, anVars, fcVars, sfVars, tmVars, cmVars, fsVars>>
    \/ /\ \E summary \in Summaries : SummaryReturns(summary)
       /\ UNCHANGED <<gtVars, ctVars, spVars, rpVars, smVars, anVars, fcVars, sfVars, tmVars, cmVars, fsVars>>
    \/ /\ SummaryFails
       /\ UNCHANGED <<gtVars, ctVars, spVars, rpVars, smVars, anVars, fcVars, sfVars, tmVars, cmVars, fsVars>>
    \/ /\ StoreConversation
       /\ UNCHANGED <<gtVars, ctVars, spVars, rpVars, smVars, anVars, fcVars, sfVars, tmVars, cmVars, fsVars>>

SpecConversation == InitConversation /\ [][NextConversation]_vars

\* generateTest with responses whose questions differ in their texts.
InitContent == GtInit /\ CtUnused /\ SpInit /\ RpUnused /\ SmUnused /\ RestUnused

NextContent ==
    \/ /\ \E input \in PostInputs : GenerateTest(input)
       /\ UNCHANGED <<ctVars, spVars, rpVars, smVars, restVars>>
    \/ /\ gtPc = "awaitingModel"
       /\ \E n \in 1..MaxQuestions :
            \E k \in 1..n, q \in ContentQuestions, rest \in [1..n -> PlainQuestions] :
               PromptReturns(OutputOf(QuestionList(n, k, q, rest)))
       /\ UNCHANGED <<ctVars, spVars, rpVars, smVars, restVars>>
    \/ /\ PromptFails
       /\ UNCHANGED <<ctVars, spVars, rpVars, smVars, restVars>>

SpecContent == InitContent /\ [][NextContent]_vars

\* The test page with its countdown, up to the start of a submission.
InitTimer == GtInit /\ CtUnused /\ SpInit /\ RpUnused /\ SmUnused
             /\ AnInit /\ FcInit /\ SfInit /\ CvInit /\ TmInit /\ CmUnused /\ FsUnused

NextTimer ==
    \/ /\ TimerLoadTest
       /\ UNCHANGED <<gtVars, ctVars, spVars, rpVars, smVars, anVars, fcVars, sfVars, cvVars, cmVars, fsVars>>
    \/ /\ TimerTick
       /\ UNCHANGED <<gtVars, ctVars, spVars, rpVars, smVars, anVars, fcVars, sfVars, cvVars, cmVars, fsVars>>
    \/ /\ TimerUserSubmits
       /\ UNCHANGED <<gtVars, ctVars, spVars, rpVars, smVars, anVars, fcVars, sfVars, cvVars, cmVars, fsVars>>

SpecTimer == InitTimer /\ [][NextTimer]_vars

\* likeCommunityPost called by two callers at a time for any user.
InitLikes == GtInit /\ CtUnused /\ SpInit /\ RpUnused /\ SmUnused
             /\ AnInit /\ FcInit /\ SfInit /\ CvInit /\ TmUnused /\ CmInit /\ FsUnused

NextLikes ==
    \/ /\ \E userId \in Users, questionText \in PostTexts :
             CreateCommunityPost(userId, questionText)
       /\ UNCHANGED <<gtVars, ctVars, spVars, rpVars, smVars, anVars, fcVars, sfVars, cvVars, tmVars, fsVars>>
    \/ /\ \E p \in Callers, userId \in Users : LikeCommunityPost(p, userId)
       /\ UNCHANGED <<gtVars, ctVars, spVars, rpVars, smVars, anVars, fcVars, sfVars, cvVars, tmVars, fsVars>>
    \/ /\ \E p \in Callers : LikeTransactionCommits(p)
       /\ UNCHANGED <<gtVars, ctVars, spVars, rpVars, smVars, anVars, fcVars, sfVars, cvVars, tmVars, fsVars>>

SpecLikes == InitLikes /\ [][NextLikes]_vars

\* addCommentToCommunityPost and deleteCommunityComment called by two
\* callers at a time.
InitComments == GtInit /\ CtUnused /\ SpInit /\ RpUnused /\ SmUnused
                /\ AnInit /\ FcInit /\ SfInit /\ CvInit /\ TmUnused /\ CmInit /\ FsUnused

NextComments ==
    \/ /\ \E userId \in Users, questionText \in PostTexts :
             CreateCommunityPost(userId, questionText)
       /\ UNCHANGED <<gtVars, ctVars, spVars, rpVars, smVars, anVars, fcVars, sfVars, cvVars, tmVars, fsVars>>
    \/ /\ \E p \in Callers, userId \in Users, text \in CommentTexts :
             AddCommentToCommunityPost(p, userId, text)
       /\ UNCHANGED <<gtVars, ctVars, spVars, rpVars, smVars, anVars, fcVars, sfVars, cvVars, tmVars, fsVars>>
    \/ /\ \E p \in Callers : AddCommentCounts(p)
       /\ UNCHANGED <<gtVars, ctVars, spVars, rpVars, smVars, anVars, fcVars, sfVars, cvVars, tmVars, fsVars>>
    \/ /\ \E p \in Callers, commentId \in CommentIds, currentUserId \in Users :
             DeleteCommunityComment(p, commentId, currentUserId)
       /\ UNCHANGED <<gtVars, ctVars, spVars, rpVars, smVars, anVars, fcVars, sfVars, cvVars, tmVars, fsVars>>
    \/ /\ \E p \in Callers : DeleteCommentRemoves(p)
       /\ UNCHANGED <<gtVars, ctVars, spVars, rpVars, smVars, anVars, fcVars, sfVars, cvVars, tmVars, fsVars>>
    \/ /\ \E p \in Callers : DeleteCommentCounts(p)
       /\ UNCHANGED <<gtVars, ctVars, spVars, rpVars, smVars, anVars, fcVars, sfVars, cvVars, tmVars, fsVars>>

SpecComments == InitComments /\ [][NextComments]_vars

\* The four guarded functions called by two callers at a time, for a post
\* of user u1 with up to MaxComments comments of either user.
InitAuthor == GtInit /\ CtUnused /\ SpInit /\ RpUnused /\ SmUnused
              /\ AnInit /\ FcInit /\ SfInit /\ CvInit /\ TmUnused /\ CmInit /\ FsUnused

NextAuthor ==
    \/ /\ CreateCommunityPost("u1", "Why?")
       /\ UNCHANGED <<gtVars, ctVars, spVars, rpVars, smVars, anVars, fcVars, sfVars, cvVars, tmVars, fsVars>>
    \/ /\ \E p \in Callers, userId \in Users : AddCommentToCommunityPost(p, userId, "Because.")
       /\ UNCHANGED <<gtVars, ctVars, spVars, rpVars, smVars, anVars, fcVars, sfVars, cvVars, tmVars, fsVars>>
    \/ /\ \E p \in Callers : AddCommentCounts(p)
       /\ UNCHANGED <<gtVars, ctVars, spVars, rpVars, smVars, anVars, fcVars, sfVars, cvVars, tmVars, fsVars>>
    \/ /\ \E p \in Callers, commentId \in CommentIds, currentUserId \in Users :
             DeleteCommunityComment(p, commentId, currentUserId)
       /\ UNCHANGED <<gtVars, ctVars, spVars, rpVars, smVars, anVars, fcVars, sfVars, cvVars, tmVars, fsVars>>
    \/ /\ \E p \in Callers : DeleteCommentRemoves(p)
       /\ UNCHANGED <<gtVars, ctVars, spVars, rpVars, smVars, anVars, fcVars, sfVars, cvVars, tmVars, fsVars>>
    \/ /\ \E p \in Callers : DeleteCommentCounts(p)
       /\ UNCHANGED <<gtVars, ctVars, spVars, rpVars, smVars, anVars, fcVars, sfVars, cvVars, tmVars, fsVars>>
    \/ /\ \E p \in Callers, currentUserId \in Users : DeleteCommunityPost(p, currentUserId)
       /\ UNCHANGED <<gtVars, ctVars, spVars, rpVars, smVars, anVars, fcVars, sfVars, cvVars, tmVars, fsVars>>
    \/ /\ \E p \in Callers : DeletePostRemoves(p)
       /\ UNCHANGED <<gtVars, ctVars, spVars, rpVars, smVars, anVars, fcVars, sfVars, cvVars, tmVars, fsVars>>
    \/ /\ \E p \in Callers, currentUserId \in Users :
             UpdateCommunityPost(p, "Why not?", currentUserId)
       /\ UNCHANGED <<gtVars, ctVars, spVars, rpVars, smVars, anVars, fcVars, sfVars, cvVars, tmVars, fsVars>>
    \/ /\ \E p \in Callers : UpdatePostWrites(p)
       /\ UNCHANGED <<gtVars, ctVars, spVars, rpVars, smVars, anVars, fcVars, sfVars, cvVars, tmVars, fsVars>>
    \/ /\ \E p \in Callers, commentId \in CommentIds, currentUserId \in Users :
             UpdateCommunityCommentText(p, commentId, "Because!", currentUserId)
       /\ UNCHANGED <<gtVars, ctVars, spVars, rpVars, smVars, anVars, fcVars, sfVars, cvVars, tmVars, fsVars>>
    \/ /\ \E p \in Callers : UpdateCommentWrites(p)
       /\ UNCHANGED <<gtVars, ctVars, spVars, rpVars, smVars, anVars, fcVars, sfVars, cvVars, tmVars, fsVars>>

SpecAuthor == InitAuthor /\ [][NextAuthor]_vars

\* A flashcard set with cards added and deleted, one completed call after
\* the other; a deletion names any card id, stored or not.
InitCards == GtInit /\ CtUnused /\ SpInit /\ RpUnused /\ SmUnused
             /\ AnInit /\ FcInit /\ SfInit /\ CvInit /\ TmUnused /\ CmUnused /\ FsInit

NextCards ==
    \/ /\ CreateFlashcardSet
       /\ UNCHANGED <<gtVars, ctVars, spVars, rpVars, smVars, anVars, fcVars, sfVars, cvVars, tmVars, cmVars>>
    \/ /\ AddFlashcardToSet
       /\ UNCHANGED <<gtVars, ctVars, spVars, rpVars, smVars, anVars, fcVars, sfVars, cvVars, tmVars, cmVars>>
    \/ /\ \E cardId \in FlashcardIds : DeleteFlashcardFromSet(cardId)
       /\ UNCHANGED <<gtVars, ctVars, spVars, rpVars, smVars, anVars, fcVars, sfVars, cvVars, tmVars, cmVars>>

SpecCards == InitCards /\ [][NextCards]_vars

====
